---------------------------- MODULE Spec2Model ----------------------------
(***************************************************************************)
(* A model of rusty_dns: the 512-byte wire buffer and the packet codec     *)
(* (src/src/structs), the cache rows (db_queries.rs), the iterative        *)
(* resolver and the per-datagram query handler (workers.rs, helpers.rs).   *)
(*                                                                         *)
(* Bytes are naturals in 0..255.  A domain name, and every other Rust      *)
(* String, is a sequence of ASCII codes ("a.b" is <<97, 46, 98>>).  An     *)
(* Option is a sequence of length at most one.  A CResult is a record      *)
(* with an ok field.                                                       *)
(***************************************************************************)
EXTENDS Integers, Sequences, FiniteSets, TLC

(***************************************************************************)
(* Program constants.                                                      *)
(***************************************************************************)
BufSize == 512
\* The limit of jumps one higher.
MaxJumpsOneMore == 5 + 1
MaxJumps == 5
MaxLabelLen == 52
UpstreamPort == 53
LookupId == 999

NOERROR == 0
FORMERR == 1
SERVFAIL == 2
NXDOMAIN == 3
NOTIMP == 4
REFUSED == 5

Dot == 46

(***************************************************************************)
(* The({ e(v) : v \in One(x) }) is e with v naming the value of x: x is    *)
(* computed once, however often e uses v.                                  *)
(***************************************************************************)
One(x) == {x}
The(S) == CHOOSE y \in S : TRUE

(***************************************************************************)
(* Unsigned integer arithmetic on bytes, as the shifts and masks compute   *)
(* it.                                                                     *)
(***************************************************************************)
RECURSIVE BitOr(_, _, _)
BitOr(a, b, width) ==
    IF width = 0 THEN 0
    ELSE (IF (a % 2 = 1) \/ (b % 2 = 1) THEN 1 ELSE 0)
         + 2 * BitOr(a \div 2, b \div 2, width - 1)

Bit(v, n) == (v \div (2 ^ n)) % 2 = 1
B2N(b) == IF b THEN 1 ELSE 0

\* String::to_lowercase on an ASCII byte.
\* The byte as it is.
KeepCase(c) == c

ToLower(c) == IF c >= 65 /\ c <= 90 THEN c + 32 ELSE c

LowerAll(s) == [i \in 1..Len(s) |-> ToLower(s[i])]

(***************************************************************************)
(* QueryType::from_num / QueryType::to_num.                                *)
(***************************************************************************)
QT(tag) == [tag |-> tag, num |-> 0]
QTUnknown(n) == [tag |-> "UNKNOWN", num |-> n]

QueryTypeFromNum(num) ==
    CASE num = 1 -> QT("A")
      [] num = 2 -> QT("NS")
      [] num = 5 -> QT("CNAME")
      [] num = 15 -> QT("MX")
      [] num = 28 -> QT("AAAA")
      [] OTHER -> QTUnknown(num)

QueryTypeToNum(qt) ==
    CASE qt.tag = "UNKNOWN" -> qt.num
      [] qt.tag = "A" -> 1
      [] qt.tag = "NS" -> 2
      [] qt.tag = "CNAME" -> 5
      [] qt.tag = "MX" -> 15
      [] qt.tag = "AAAA" -> 28

\* ResultCode::from_num: unknown values decode to NOERROR.
ResultCodeFromNum(num) ==
    IF num \in {FORMERR, SERVFAIL, NXDOMAIN, NOTIMP, REFUSED} THEN num ELSE NOERROR

(***************************************************************************)
(* Header, Question, Record, Packet values.                                *)
(***************************************************************************)
HeaderNew ==
    [id |-> 0, recursion_desired |-> FALSE, truncated_message |-> FALSE,
     authoritative_answer |-> FALSE, opcode |-> 0, response |-> FALSE,
     rescode |-> NOERROR, checking_disabled |-> FALSE, authed_data |-> FALSE,
     z |-> FALSE, recursion_available |-> FALSE,
     questions |-> 0, answers |-> 0, authoritative_entries |-> 0,
     resource_entries |-> 0]

QuestionNew(qname, qtype) == [qname |-> qname, qtype |-> qtype]

\* One record shape for the six variants of Record; the fields a variant
\* does not have stay at their defaults.
RecordBase(tag, domain, ttl) ==
    [tag |-> tag, domain |-> domain, ttl |-> ttl, addr |-> <<>>, host |-> <<>>,
     priority |-> 0, qtype |-> 0, data_len |-> 0]

RecA(domain, addr, ttl) == [RecordBase("A", domain, ttl) EXCEPT !.addr = addr]
RecAAAA(domain, addr, ttl) == [RecordBase("AAAA", domain, ttl) EXCEPT !.addr = addr]
RecNS(domain, host, ttl) == [RecordBase("NS", domain, ttl) EXCEPT !.host = host]
RecCNAME(domain, host, ttl) == [RecordBase("CNAME", domain, ttl) EXCEPT !.host = host]
RecMX(domain, priority, host, ttl) ==
    [RecordBase("MX", domain, ttl) EXCEPT !.host = host, !.priority = priority]
RecUNKNOWN(domain, qtype, data_len, ttl) ==
    [RecordBase("UNKNOWN", domain, ttl) EXCEPT !.qtype = qtype, !.data_len = data_len]

PacketNew ==
    [header |-> HeaderNew, questions |-> <<>>, answers |-> <<>>,
     authorities |-> <<>>, resources |-> <<>>]

(***************************************************************************)
(* BytePacketBuffer, read side.  The buffer is created zeroed and          *)
(* recv_from copies at most BufSize bytes of the datagram into it, so      *)
(* byte i of the buffer is byte i of the datagram when there is one and 0  *)
(* otherwise; the received length is not kept.                             *)
(***************************************************************************)
BufByte(buf, pos) == IF pos < Len(buf) THEN buf[pos + 1] ELSE 0

\* BytePacketBuffer::get
Get(buf, pos) ==
    IF pos >= BufSize THEN [ok |-> FALSE, val |-> 0]
    ELSE [ok |-> TRUE, val |-> BufByte(buf, pos)]

\* BytePacketBuffer::get_range; the slice is returned as a sequence.
GetRange(buf, start, len) ==
    IF start + len >= BufSize THEN [ok |-> FALSE, val |-> <<>>]
    ELSE [ok |-> TRUE, val |-> [i \in 1..len |-> BufByte(buf, start + i - 1)]]

\* BytePacketBuffer::read_u8
ReadU8(buf, pos) ==
    IF pos >= BufSize THEN [ok |-> FALSE, pos |-> pos, val |-> 0]
    ELSE [ok |-> TRUE, pos |-> pos + 1, val |-> BufByte(buf, pos)]

\* A run of read_u8 from pos that failed: the ? operator returns the error
\* at once, and the reads before it have moved the cursor to the end of the
\* buffer, unless it was there or further already.
ReadErr(pos) == [ok |-> FALSE, pos |-> IF pos >= BufSize THEN pos ELSE BufSize, val |-> 0]

\* BytePacketBuffer::read_u16.  A read_u8 that succeeds moves the cursor by
\* one, so the second byte is read at pos + 1.
ReadU16(buf, pos) ==
    LET a == ReadU8(buf, pos)
        b == ReadU8(buf, pos + 1)
    IN  IF ~a.ok \/ ~b.ok THEN ReadErr(pos)
        ELSE [ok |-> TRUE, pos |-> pos + 2, val |-> a.val * 256 + b.val]

\* BytePacketBuffer::read_u32.  The u32 read is hi * 2^16 + lo; it is kept
\* as its two halves, which is all its users take from it.
ReadU32(buf, pos) ==
    LET a == ReadU16(buf, pos)
        b == ReadU16(buf, pos + 2)
    IN  IF ~a.ok \/ ~b.ok THEN [ok |-> FALSE, pos |-> ReadErr(pos).pos, hi |-> 0, lo |-> 0]
        ELSE [ok |-> TRUE, pos |-> pos + 4, hi |-> a.val, lo |-> b.val]

\* The loop of BytePacketBuffer::read_qname.  cursor is self.pos, pos the
\* local position, out the string built so far, first whether delim is
\* still empty, jumps is jumps_performed (kept in the result).
RECURSIVE ReadQnameLoop(_, _, _, _, _, _, _)
ReadQnameLoop(buf, cursor, pos, jumped, jumps, out, first) ==
    IF jumps > MaxJumps THEN [ok |-> FALSE, pos |-> cursor, name |-> out, jumps |-> jumps]
    ELSE
    LET len == Get(buf, pos) IN
    IF ~len.ok THEN [ok |-> FALSE, pos |-> cursor, name |-> out, jumps |-> jumps]
    ELSE IF len.val >= 192 THEN
        LET cur2 == IF ~jumped THEN pos + 2 ELSE cursor
            b2 == Get(buf, pos + 1)
        IN  IF ~b2.ok THEN [ok |-> FALSE, pos |-> cur2, name |-> out, jumps |-> jumps]
            ELSE ReadQnameLoop(buf, cur2, (len.val - 192) * 256 + b2.val,
                               TRUE, jumps + 1, out, first)
    ELSE IF len.val = 0 THEN
        [ok |-> TRUE, pos |-> IF ~jumped THEN pos + 1 ELSE cursor, name |-> out, jumps |-> jumps]
    ELSE
        LET str == GetRange(buf, pos + 1, len.val)
            withDelim == IF first THEN out ELSE Append(out, Dot)
        IN  IF ~str.ok THEN [ok |-> FALSE, pos |-> cursor, name |-> withDelim, jumps |-> jumps]
            ELSE ReadQnameLoop(buf, cursor, pos + 1 + len.val, jumped, jumps,
                               withDelim \o LowerAll(str.val), FALSE)

\* read_qname leaving the cursor on the second byte of a pointer.
ReadQnameShortSeek(buf, pos) ==
    The({ IF r.jumps > 0 THEN [r EXCEPT !.pos = r.pos - 1] ELSE r
          : r \in One(ReadQnameLoop(buf, pos, pos, FALSE, 0, <<>>, TRUE)) })

\* BytePacketBuffer::read_qname
ReadQname(buf, pos) == ReadQnameLoop(buf, pos, pos, FALSE, 0, <<>>, TRUE)

(***************************************************************************)
(* Header::read                                                            *)
(***************************************************************************)
\* The header fields decoded from the six words read.
HeaderOf(id, flags, qd, an, ns, ar) ==
    [id |-> id,
     recursion_desired |-> Bit(flags \div 256, 0),
     truncated_message |-> Bit(flags \div 256, 1),
     authoritative_answer |-> Bit(flags \div 256, 2),
     opcode |-> ((flags \div 256) \div 8) % 16,
     response |-> Bit(flags \div 256, 7),
     rescode |-> ResultCodeFromNum((flags % 256) % 16),
     checking_disabled |-> Bit(flags % 256, 4),
     authed_data |-> Bit(flags % 256, 5),
     z |-> Bit(flags % 256, 6),
     recursion_available |-> Bit(flags % 256, 7),
     questions |-> qd, answers |-> an,
     authoritative_entries |-> ns, resource_entries |-> ar]

\* Six read_u16 in a row, each two bytes after the one before.
HeaderRead(buf, pos) ==
    LET w == [i \in 0..5 |-> ReadU16(buf, pos + 2 * i)]
    IN  IF \E i \in 0..5 : ~w[i].ok
        THEN [ok |-> FALSE, pos |-> ReadErr(pos).pos, header |-> HeaderNew]
        ELSE [ok |-> TRUE, pos |-> pos + 12,
              header |-> HeaderOf(w[0].val, w[1].val, w[2].val, w[3].val,
                                  w[4].val, w[5].val)]

(***************************************************************************)
(* Question::read                                                          *)
(***************************************************************************)
QuestionRead(buf, pos) ==
    LET name == ReadQname(buf, pos)
    IN  IF ~name.ok \/ ~ReadU16(buf, name.pos).ok \/ ~ReadU16(buf, name.pos + 2).ok
        THEN [ok |-> FALSE,
              pos |-> IF ~name.ok THEN name.pos ELSE ReadErr(name.pos).pos,
              val |-> QuestionNew(<<>>, QTUnknown(0))]
        ELSE [ok |-> TRUE, pos |-> name.pos + 4,
              val |-> QuestionNew(name.name,
                                  QueryTypeFromNum(ReadU16(buf, name.pos).val))]

(***************************************************************************)
(* Record::read                                                            *)
(***************************************************************************)
\* Ipv4Addr::new of the four bytes of a u32.
Octets(raw) == <<raw.hi \div 256, raw.hi % 256, raw.lo \div 256, raw.lo % 256>>

\* The two segments of an Ipv6Addr a u32 gives.
Segments(raw) == <<raw.hi, raw.lo>>

RecordBad(pos) == [ok |-> FALSE, pos |-> pos, val |-> RecordBase("UNKNOWN", <<>>, 0)]

\* The ten bytes after the owner name: type, class, ttl and data length.
RecordFixed(buf, p) ==
    [qtype_num |-> ReadU16(buf, p), class |-> ReadU16(buf, p + 2),
     ttl |-> ReadU32(buf, p + 4), data_len |-> ReadU16(buf, p + 8)]

\* The match on qtype: domain is the owner name read, f the fixed fields
\* and p the position after them.
RecordData(buf, pos, domain, f, p) ==
    LET ttl == f.ttl.hi * 65536 + f.ttl.lo
        tag == QueryTypeFromNum(f.qtype_num.val).tag
    IN  CASE tag = "A" ->
               LET raw == ReadU32(buf, p)
               IN  IF ~raw.ok THEN RecordBad(raw.pos)
                   ELSE [ok |-> TRUE, pos |-> p + 4,
                         val |-> RecA(domain, Octets(raw), ttl)]
          [] tag = "AAAA" ->
               LET r == [i \in 0..3 |-> ReadU32(buf, p + 4 * i)]
               IN  IF \E i \in 0..3 : ~r[i].ok THEN RecordBad(ReadErr(p).pos)
                   ELSE [ok |-> TRUE, pos |-> p + 16,
                         val |-> RecAAAA(domain,
                                         Segments(r[0]) \o Segments(r[1])
                                         \o Segments(r[2]) \o Segments(r[3]),
                                         ttl)]
          [] tag = "NS" ->
               LET ns == ReadQname(buf, p)
               IN  IF ~ns.ok THEN RecordBad(ns.pos)
                   ELSE [ok |-> TRUE, pos |-> ns.pos, val |-> RecNS(domain, ns.name, ttl)]
          [] tag = "CNAME" ->
               LET cname == ReadQname(buf, p)
               IN  IF ~cname.ok THEN RecordBad(cname.pos)
                   ELSE [ok |-> TRUE, pos |-> cname.pos,
                         val |-> RecCNAME(domain, cname.name, ttl)]
          [] tag = "MX" ->
               LET mx == ReadQname(buf, p + 2)
               IN  IF ~ReadU16(buf, p).ok THEN RecordBad(ReadErr(p).pos)
                   ELSE IF ~mx.ok THEN RecordBad(mx.pos)
                   ELSE [ok |-> TRUE, pos |-> mx.pos,
                         val |-> RecMX(domain, ReadU16(buf, p).val, mx.name, ttl)]
          [] OTHER ->
               \* BytePacketBuffer::step never fails and does not bound pos.
               [ok |-> TRUE, pos |-> p + f.data_len.val,
                val |-> RecUNKNOWN(domain, f.qtype_num.val, f.data_len.val, ttl)]

RecordRead(buf, pos) ==
    The({ IF ~domain.ok THEN RecordBad(domain.pos)
          ELSE The({ IF ~f.qtype_num.ok \/ ~f.class.ok \/ ~f.ttl.ok \/ ~f.data_len.ok
                     THEN RecordBad(ReadErr(domain.pos).pos)
                     ELSE RecordData(buf, pos, domain.name, f, domain.pos + 10)
                     : f \in One(RecordFixed(buf, domain.pos)) })
          : domain \in One(ReadQname(buf, pos)) })

(***************************************************************************)
(* Packet::from_buffer.  The loops over the counts of the header: acc is   *)
(* the section read so far.                                                *)
(***************************************************************************)
RECURSIVE ReadQuestions(_, _, _, _)
ReadQuestions(buf, pos, n, acc) ==
    IF n = 0 THEN [ok |-> TRUE, pos |-> pos, val |-> acc]
    ELSE The({ IF ~q.ok THEN [ok |-> FALSE, pos |-> q.pos, val |-> <<>>]
               ELSE ReadQuestions(buf, q.pos, n - 1, Append(acc, q.val))
               : q \in One(QuestionRead(buf, pos)) })

RECURSIVE ReadRecords(_, _, _, _)
ReadRecords(buf, pos, n, acc) ==
    IF n = 0 THEN [ok |-> TRUE, pos |-> pos, val |-> acc]
    ELSE The({ IF ~r.ok THEN [ok |-> FALSE, pos |-> r.pos, val |-> <<>>]
               ELSE ReadRecords(buf, r.pos, n - 1, Append(acc, r.val))
               : r \in One(RecordRead(buf, pos)) })

\* The three record sections, one after the other: counts is what is left
\* of <<answers, authoritative_entries, resource_entries>>.
RECURSIVE ReadSections(_, _, _, _)
ReadSections(buf, pos, counts, acc) ==
    IF counts = <<>> THEN [ok |-> TRUE, pos |-> pos, val |-> acc]
    ELSE The({ IF ~sec.ok THEN [ok |-> FALSE, pos |-> sec.pos, val |-> <<>>]
               ELSE ReadSections(buf, sec.pos, Tail(counts), Append(acc, sec.val))
               : sec \in One(ReadRecords(buf, pos, Head(counts), <<>>)) })

\* A parse that failed; pos is where the cursor was left.
PacketBad == [ok |-> FALSE, pos |-> 0, val |-> PacketNew]

PacketFromBuffer(buf) ==
    The({ IF ~h.ok THEN [PacketBad EXCEPT !.pos = h.pos]
          ELSE The({ IF ~qs.ok THEN [PacketBad EXCEPT !.pos = qs.pos]
                     ELSE The({ IF ~rs.ok THEN [PacketBad EXCEPT !.pos = rs.pos]
                                ELSE [ok |-> TRUE, pos |-> rs.pos,
                                      val |-> [header |-> h.header,
                                               questions |-> qs.val,
                                               answers |-> rs.val[1],
                                               authorities |-> rs.val[2],
                                               resources |-> rs.val[3]]]
                                : rs \in One(ReadSections(buf, qs.pos,
                                        <<h.header.answers,
                                          h.header.authoritative_entries,
                                          h.header.resource_entries>>, <<>>)) })
                     : qs \in One(ReadQuestions(buf, h.pos, h.header.questions, <<>>)) })
          : h \in One(HeaderRead(buf, 0)) })

(***************************************************************************)
(* BytePacketBuffer, write side.  Every buffer written to is created by    *)
(* BytePacketBuffer::new and written from position 0 on, so the writer is  *)
(* the bytes written so far (out, with pos = Len(out)) and whether a write *)
(* has failed.                                                             *)
(***************************************************************************)
WriterNew == [ok |-> TRUE, out |-> <<>>]

\* BytePacketBuffer::write_u8
WriteU8(w, val) ==
    IF ~w.ok THEN w
    ELSE IF Len(w.out) >= BufSize THEN [w EXCEPT !.ok = FALSE]
    ELSE [w EXCEPT !.out = Append(w.out, val % 256)]

\* BytePacketBuffer::write_u16
WriteU16(w, val) == WriteU8(WriteU8(w, (val \div 256) % 256), val % 256)

\* BytePacketBuffer::write_u32
WriteU32(w, val) == WriteU16(WriteU16(w, (val \div 65536) % 65536), val % 65536)

\* write_u8 of each byte in turn: the bytes that fit are written, and the
\* first that does not is the error.
WriteBytes(w, bytes) ==
    IF ~w.ok THEN w
    ELSE IF Len(w.out) + Len(bytes) <= BufSize THEN [w EXCEPT !.out = w.out \o bytes]
    ELSE [ok |-> FALSE, out |-> w.out \o SubSeq(bytes, 1, BufSize - Len(w.out))]

\* BytePacketBuffer::set_u16: the two bytes are inside what has been written.
SetU16(w, pos, val) ==
    IF ~w.ok THEN w
    ELSE IF pos + 1 >= BufSize THEN [w EXCEPT !.ok = FALSE]
    ELSE [w EXCEPT !.out = SubSeq(w.out, 1, pos)
                              \o <<(val \div 256) % 256, val % 256>>
                              \o SubSeq(w.out, pos + 3, Len(w.out))]

\* str::split('.'): the labels of a name; "" has the single label "".
\* SplitFrom: the labels of name from position start on.
RECURSIVE SplitFrom(_, _)
SplitFrom(name, start) ==
    LET dots == {i \in start..Len(name) : name[i] = Dot}
    IN  IF dots = {} THEN <<SubSeq(name, start, Len(name))>>
        ELSE The({ <<SubSeq(name, start, d - 1)>> \o SplitFrom(name, d + 1)
                   : d \in {i \in dots : \A j \in dots : i <= j} })

Split(name) == SplitFrom(name, 1)

\* The loop of BytePacketBuffer::write_qname over the labels.
RECURSIVE WriteLabels(_, _)
WriteLabels(w, labels) ==
    IF ~w.ok \/ labels = <<>> THEN w
    ELSE LET label == Head(labels)
         IN  IF Len(label) > MaxLabelLen THEN [w EXCEPT !.ok = FALSE]
             ELSE The({ WriteLabels(next, Tail(labels))
                        : next \in One(WriteBytes(WriteU8(w, Len(label)), label)) })

\* BytePacketBuffer::write_qname
WriteQname(w, qname) == WriteU8(WriteLabels(w, Split(qname)), 0)

\* Header::write with the opcode left out of the first flags byte.
HeaderWriteOpcodeLost(w, h) ==
    LET b1 == BitOr(BitOr(B2N(h.recursion_desired), B2N(h.truncated_message) * 2, 8),
                    BitOr(B2N(h.authoritative_answer) * 4, B2N(h.response) * 128, 8), 8)
        b2 == BitOr(BitOr(BitOr(h.rescode, B2N(h.checking_disabled) * 16, 8),
                          BitOr(B2N(h.authed_data) * 32, B2N(h.z) * 64, 8), 8),
                    B2N(h.recursion_available) * 128, 8)
    IN  WriteU16(WriteU16(WriteU16(WriteU16(
            WriteU8(WriteU8(WriteU16(w, h.id), b1), b2),
            h.questions), h.answers), h.authoritative_entries), h.resource_entries)

(***************************************************************************)
(* Header::write                                                           *)
(***************************************************************************)
HeaderWrite(w, h) ==
    LET b1 == BitOr(BitOr(BitOr(B2N(h.recursion_desired), B2N(h.truncated_message) * 2, 8),
                          BitOr(B2N(h.authoritative_answer) * 4, (h.opcode * 8) % 256, 8), 8),
                    B2N(h.response) * 128, 8)
        b2 == BitOr(BitOr(BitOr(h.rescode, B2N(h.checking_disabled) * 16, 8),
                          BitOr(B2N(h.authed_data) * 32, B2N(h.z) * 64, 8), 8),
                    B2N(h.recursion_available) * 128, 8)
    IN  WriteU16(WriteU16(WriteU16(WriteU16(
            WriteU8(WriteU8(WriteU16(w, h.id), b1), b2),
            h.questions), h.answers), h.authoritative_entries), h.resource_entries)

(***************************************************************************)
(* Question::write                                                         *)
(***************************************************************************)
QuestionWrite(w, q) ==
    WriteU16(WriteU16(WriteQname(w, q.qname), QueryTypeToNum(q.qtype)), 1)

(***************************************************************************)
(* Record::write                                                           *)
(***************************************************************************)
\* The common start of every variant written: owner, type, class, ttl.
RecordPrefix(w, rec, typenum) ==
    WriteU32(WriteU16(WriteU16(WriteQname(w, rec.domain), typenum), 1), rec.ttl)

\* The RDLENGTH placeholder, the data written by body, then the back-patch.
PatchLen(before, after) ==
    SetU16(after, Len(before.out), Len(after.out) - (Len(before.out) + 2))

RecordWrite(w, rec) ==
    CASE rec.tag = "A" ->
           WriteBytes(WriteU16(RecordPrefix(w, rec, 1), 4), rec.addr)
      [] rec.tag = "NS" ->
           The({ The({ PatchLen(pre, after)
                       : after \in One(WriteQname(WriteU16(pre, 0), rec.host)) })
                 : pre \in One(RecordPrefix(w, rec, 2)) })
      [] rec.tag = "CNAME" ->
           The({ The({ PatchLen(pre, after)
                       : after \in One(WriteQname(WriteU16(pre, 0), rec.host)) })
                 : pre \in One(RecordPrefix(w, rec, 5)) })
      [] rec.tag = "MX" ->
           The({ The({ PatchLen(pre, after)
                       : after \in One(WriteQname(WriteU16(WriteU16(pre, 0), rec.priority),
                                                  rec.host)) })
                 : pre \in One(RecordPrefix(w, rec, 15)) })
      [] rec.tag = "AAAA" ->
           LET pre == WriteU16(RecordPrefix(w, rec, 28), 16)
               RECURSIVE Segs(_, _)
               Segs(ww, s) == IF s = <<>> THEN ww ELSE Segs(WriteU16(ww, Head(s)), Tail(s))
           IN  Segs(pre, rec.addr)
      [] OTHER -> w

(***************************************************************************)
(* Packet::write.  The four counts of the header are overwritten from the  *)
(* lengths of the sections; the result carries the packet as updated.      *)
(***************************************************************************)
RECURSIVE WriteQuestions(_, _)
WriteQuestions(w, qs) ==
    IF qs = <<>> THEN w
    ELSE The({ WriteQuestions(next, Tail(qs)) : next \in One(QuestionWrite(w, Head(qs))) })

RECURSIVE WriteRecords(_, _)
WriteRecords(w, recs) ==
    IF recs = <<>> THEN w
    ELSE The({ WriteRecords(next, Tail(recs)) : next \in One(RecordWrite(w, Head(recs))) })

\* Packet::write leaving the header's counts as they were.
PacketUncounted(p) == p

PacketCounted(p) ==
    [p EXCEPT !.header.questions = Len(p.questions) % 65536,
              !.header.answers = Len(p.answers) % 65536,
              !.header.authoritative_entries = Len(p.authorities) % 65536,
              !.header.resource_entries = Len(p.resources) % 65536]

\* The three record sections, one after the other.
RECURSIVE WriteSections(_, _)
WriteSections(w, secs) ==
    IF secs = <<>> THEN w
    ELSE The({ WriteSections(next, Tail(secs)) : next \in One(WriteRecords(w, Head(secs))) })

PacketWrite(w, p) ==
    The({ WriteSections(qs, <<p.answers, p.authorities, p.resources>>)
          : qs \in One(WriteQuestions(HeaderWrite(w, PacketCounted(p).header),
                                      p.questions)) })

\* The error packet with another rescode.
ErrorPacketServfail(rescode, id) ==
    [ok |-> TRUE,
     val |-> [PacketNew EXCEPT !.header.rescode = SERVFAIL,
                               !.header.response = TRUE,
                               !.header.id = id]]

(***************************************************************************)
(* Packet::error_packet and BytePacketBuffer::new_error_packet             *)
(***************************************************************************)
ErrorPacket(rescode, id) ==
    IF rescode = NOERROR THEN [ok |-> FALSE, val |-> PacketNew]
    ELSE [ok |-> TRUE,
          val |-> [PacketNew EXCEPT !.header.rescode = rescode,
                                    !.header.response = TRUE,
                                    !.header.id = id]]

NewErrorPacket(rescode, id) ==
    LET p == ErrorPacket(rescode, id)
    IN  IF ~p.ok THEN [ok |-> FALSE, out |-> <<>>] ELSE PacketWrite(WriterNew, p.val)

(***************************************************************************)
(* Packet accessors used by the resolver.                                  *)
(***************************************************************************)
\* str::ends_with
EndsWith(s, suffix) ==
    /\ Len(suffix) <= Len(s)
    /\ SubSeq(s, Len(s) - Len(suffix) + 1, Len(s)) = suffix

\* get_ns without the ends_with filter.
GetNsOfAnyOwner(p, qname) ==
    LET IsNs(r) == r.tag = "NS"
    IN  SelectSeq(p.authorities, IsNs)

\* Packet::get_ns: the NS records of the authority section whose owner is
\* a suffix of qname, in wire order.
GetNs(p, qname) ==
    LET IsNs(r) == r.tag = "NS" /\ EndsWith(qname, r.domain)
    IN  SelectSeq(p.authorities, IsNs)

\* The A records of the additional section owned by host, in wire order.
GlueFor(p, host) ==
    LET IsGlue(r) == r.tag = "A" /\ r.domain = host
    IN  SelectSeq(p.resources, IsGlue)

RECURSIVE FlatGlue(_, _)
FlatGlue(p, nss) ==
    IF nss = <<>> THEN <<>> ELSE GlueFor(p, Head(nss).host) \o FlatGlue(p, Tail(nss))

\* Iterator::next: the first element, as an Option.
First(s) == IF s = <<>> THEN <<>> ELSE <<Head(s)>>

\* Packet::get_resolved_ns
GetResolvedNs(p, qname) == First(FlatGlue(p, GetNs(p, qname)))

\* Packet::get_unresolved_ns
GetUnresolvedNs(p, qname) ==
    LET nss == GetNs(p, qname) IN IF nss = <<>> THEN <<>> ELSE <<Head(nss).host>>

\* Packet::get_random_a_rec
GetRandomARec(p) ==
    LET IsA(r) == r.tag = "A" IN First(SelectSeq(p.answers, IsA))

\* Packet::add_info
AddInfo(p, id, recursion_desired, recursion_available, response, rescode) ==
    [p EXCEPT !.header.id = id,
              !.header.recursion_desired = recursion_desired,
              !.header.recursion_available = recursion_available,
              !.header.response = response,
              !.header.rescode = rescode]

(***************************************************************************)
(* Ipv4Addr to text and back (Display and FromStr of std::net::Ipv4Addr).  *)
(***************************************************************************)
Digit(n) == 48 + n

Decimal(n) ==
    IF n < 10 THEN <<Digit(n)>>
    ELSE IF n < 100 THEN <<Digit(n \div 10), Digit(n % 10)>>
    ELSE <<Digit(n \div 100), Digit((n \div 10) % 10), Digit(n % 10)>>

Ipv4ToString(addr) ==
    Decimal(addr[1]) \o <<Dot>> \o Decimal(addr[2]) \o <<Dot>>
    \o Decimal(addr[3]) \o <<Dot>> \o Decimal(addr[4])

IsDigits(s) == \A i \in 1..Len(s) : s[i] >= 48 /\ s[i] <= 57

RECURSIVE DecimalValue(_, _)
DecimalValue(s, acc) ==
    IF s = <<>> THEN acc ELSE DecimalValue(Tail(s), acc * 10 + (Head(s) - 48))

\* One octet of the dotted form: one to three digits, no leading zero,
\* at most 255.
OctetOk(s) ==
    /\ Len(s) >= 1 /\ Len(s) <= 3
    /\ IsDigits(s)
    /\ (Len(s) > 1 => s[1] # 48)
    /\ DecimalValue(s, 0) <= 255

Ipv4FromStr(s) ==
    LET parts == Split(s)
    IN  IF Len(parts) = 4 /\ \A i \in 1..4 : OctetOk(parts[i])
        THEN [ok |-> TRUE, val |-> [i \in 1..4 |-> DecimalValue(parts[i], 0)]]
        ELSE [ok |-> FALSE, val |-> <<>>]

(***************************************************************************)
(* Ipv6Addr from text (FromStr of std::net::Ipv6Addr): eight groups of one *)
(* to four hexadecimal digits between colons, or fewer with one "::" that  *)
(* stands for the groups of zero left out.  The form that ends in a dotted *)
(* IPv4 address is left out: no text of the model has it.                  *)
(***************************************************************************)
Colon == 58

\* Where s has c at or after i, and Len(s) + 1 where it has none.
RECURSIVE Find(_, _, _)
Find(s, c, i) == IF i > Len(s) \/ s[i] = c THEN i ELSE Find(s, c, i + 1)

\* The pieces of s between colons.
RECURSIVE Groups(_)
Groups(s) ==
    LET i == Find(s, Colon, 1)
    IN  IF i > Len(s) THEN <<s>>
        ELSE <<SubSeq(s, 1, i - 1)>> \o Groups(SubSeq(s, i + 1, Len(s)))

HexDigit(c) ==
    (c >= 48 /\ c <= 57) \/ (c >= 97 /\ c <= 102) \/ (c >= 65 /\ c <= 70)

HexOf(c) == IF c <= 57 THEN c - 48 ELSE IF c >= 97 THEN c - 87 ELSE c - 55

RECURSIVE HexValue(_, _)
HexValue(s, acc) ==
    IF s = <<>> THEN acc ELSE HexValue(Tail(s), acc * 16 + HexOf(Head(s)))

GroupOk(s) == Len(s) >= 1 /\ Len(s) <= 4 /\ \A i \in 1..Len(s) : HexDigit(s[i])

\* Where s has "::" first, and 0 where it has none.
DoubleColon(s) ==
    LET at == {i \in 1..(Len(s) - 1) : s[i] = Colon /\ s[i + 1] = Colon}
    IN  IF at = {} THEN 0 ELSE CHOOSE i \in at : \A j \in at : i <= j

Ipv6FromStr(s) ==
    LET no == [ok |-> FALSE, val |-> <<>>]
        dc == DoubleColon(s)
        Values(gs) == [i \in 1..Len(gs) |-> HexValue(gs[i], 0)]
    IN  IF dc = 0 THEN
            LET gs == Groups(s)
            IN  IF Len(gs) = 8 /\ \A i \in 1..8 : GroupOk(gs[i])
                THEN [ok |-> TRUE, val |-> Values(gs)]
                ELSE no
        ELSE
            LET left == SubSeq(s, 1, dc - 1)
                right == SubSeq(s, dc + 2, Len(s))
                lg == IF left = <<>> THEN <<>> ELSE Groups(left)
                rg == IF right = <<>> THEN <<>> ELSE Groups(right)
            IN  IF /\ \A i \in 1..Len(lg) : GroupOk(lg[i])
                   /\ \A i \in 1..Len(rg) : GroupOk(rg[i])
                   /\ Len(lg) + Len(rg) <= 7
                THEN [ok |-> TRUE,
                      val |-> Values(lg) \o [i \in 1..(8 - Len(lg) - Len(rg)) |-> 0]
                              \o Values(rg)]
                ELSE no

(***************************************************************************)
(* The cache: table entries, rows as CachedRecord.  The Option columns are *)
(* sequences of length at most one.  inserted_at is not a column: it       *)
(* records the time of the INSERT for the statements made about rows.      *)
(***************************************************************************)
NoRow ==
    [id |-> 0, address |-> <<>>, host |-> <<>>, priority |-> <<>>, domain |-> <<>>,
     expiration_date |-> 0, ttl |-> 0, record_type |-> 0, inserted_at |-> 0]

\* Validity lost at the moment of expiry.
IsValidStrict(cr, t) == cr.expiration_date > t

\* Validity kept for a second after expiry.
IsValidLate(cr, t) == cr.expiration_date + 1 >= t

\* CachedRecord::is_valid, with Local::now() read as t.
IsValid(cr, t) == cr.expiration_date >= t

\* CachedRecord::record_from_cache
RecordFromCache(cr) ==
    LET bad == [ok |-> FALSE, val |-> RecordBase("UNKNOWN", <<>>, 0)]
        record_type == QueryTypeFromNum(cr.record_type)
    IN  CASE record_type.tag = "A" ->
               IF cr.address = <<>> THEN bad
               ELSE LET addr == Ipv4FromStr(cr.address[1])
                    IN  IF ~addr.ok THEN bad
                        ELSE [ok |-> TRUE, val |-> RecA(cr.domain, addr.val, cr.ttl)]
          [] record_type.tag = "CNAME" ->
               IF cr.host = <<>> THEN bad
               ELSE [ok |-> TRUE, val |-> RecCNAME(cr.domain, cr.host[1], cr.ttl)]
          [] record_type.tag = "MX" ->
               IF cr.host = <<>> \/ cr.priority = <<>> THEN bad
               ELSE [ok |-> TRUE,
                     val |-> RecMX(cr.domain, cr.priority[1], cr.host[1], cr.ttl)]
          [] record_type.tag = "AAAA" ->
               IF cr.address = <<>> THEN bad
               ELSE LET addr == Ipv6FromStr(cr.address[1])
                    IN  IF ~addr.ok THEN bad
                        ELSE [ok |-> TRUE, val |-> RecAAAA(cr.domain, addr.val, cr.ttl)]
          [] OTHER -> bad

\* Packet::add_cr_to_answers
AddCrToAnswers(p, cr) ==
    LET record == RecordFromCache(cr)
    IN  IF ~record.ok THEN [ok |-> FALSE, val |-> p]
        ELSE [ok |-> TRUE,
              val |-> [p EXCEPT !.header.answers = (p.header.answers + 1) % 65536,
                                !.answers = Append(p.answers, record.val)]]

\* The row Record::register_record inserts for an A record at time t.
NewRow(id, rec, t) ==
    [id |-> id, address |-> <<Ipv4ToString(rec.addr)>>, host |-> <<>>,
     priority |-> <<>>, domain |-> rec.domain, expiration_date |-> t + rec.ttl,
     ttl |-> rec.ttl, record_type |-> 1, inserted_at |-> t]

\* SELECT ... FROM entries WHERE (domain = $1)
Matching(rows, domain) == {r \in rows : r.domain = domain}

\* DELETE FROM entries WHERE (id = $1)
DeleteRow(rows, id) == {r \in rows : r.id # id}

(***************************************************************************)
(* Bounds of the model.                                                    *)
(***************************************************************************)
\* Datagrams the listener receives in one run.
MaxHandlers == 2
\* Upstream exchanges in one run, over all resolvers.
MaxLookups == 2
\* The clock runs from 0 to MaxTime.
MaxTime == 2

Handlers == 1..MaxHandlers

(***************************************************************************)
(* The inputs: the datagrams clients send and the datagrams upstream       *)
(* servers reply with.                                                     *)
(***************************************************************************)
NameQ == <<97, 46, 98>>        \* "a.b"
NameZone == <<98>>             \* "b"
NameNs == <<110, 46, 98>>      \* "n.b"
NameC == <<99, 46, 98>>        \* "c.b"
NameCUpper == <<67, 46, 98>>   \* "C.b"

Addr1 == <<10, 0, 0, 1>>
Addr2 == <<10, 0, 0, 2>>
RootAddr == <<198, 41, 0, 4>>

ClientId == 7

\* tests/api/helpers.rs get_query_packet, written to a buffer.
QueryBytes(id, rd, qr, name, qtype) ==
    PacketWrite(WriterNew,
                [PacketNew EXCEPT !.header.id = id,
                                  !.header.recursion_desired = rd,
                                  !.header.response = qr,
                                  !.header.authed_data = TRUE,
                                  !.questions = <<QuestionNew(name, qtype)>>]).out

Zeros(n) == [i \in 1..n |-> 0]

\* A query whose name is a compression pointer to itself.
LoopQuery == <<0, ClientId, 1, 0, 0, 1, 0, 0, 0, 0, 0, 0, 192, 12, 0, 1, 0, 1>>
\* A query whose QR bit is set and whose name is a pointer to itself.
LoopResponse == <<0, ClientId, 129, 0, 0, 1, 0, 0, 0, 0, 0, 0, 192, 12, 0, 1, 0, 1>>

Datagrams ==
    { QueryBytes(ClientId, TRUE, FALSE, NameQ, QT("A")),
      QueryBytes(ClientId, FALSE, FALSE, NameQ, QT("A")),
      QueryBytes(ClientId, FALSE, FALSE, NameNs, QT("A")),
      QueryBytes(ClientId, TRUE, TRUE, NameQ, QT("A")),
      LoopQuery,
      LoopResponse,
      <<0>>,
      <<0, 0, 0, 0, 0, 1>>,
      <<0, ClientId, 1>>,
      Zeros(600) }

\* A name of one label of n letters x.
Label(n) == [i \in 1..n |-> 120]

\* Host names of two labels: with HostFull the answers of ReplyFull take 491
\* bytes and the response to the query for NameQ 512; with HostOver two
\* more.
HostFull == Label(50) \o <<Dot>> \o Label(50)
HostOver == Label(50) \o <<Dot>> \o Label(52)

ReplyBytes(rescode, answers, authorities, resources) ==
    PacketWrite(WriterNew,
                [PacketNew EXCEPT !.header.id = LookupId,
                                  !.header.response = TRUE,
                                  !.header.rescode = rescode,
                                  !.answers = answers,
                                  !.authorities = authorities,
                                  !.resources = resources]).out

ReplyFull ==
    ReplyBytes(NOERROR,
               <<RecA(NameQ, Addr1, 1), RecCNAME(NameQ, HostFull, 1), RecCNAME(NameQ, HostFull, 1),
                 RecCNAME(NameQ, HostFull, 1), RecCNAME(NameQ, HostFull, 1)>>, <<>>, <<>>)

ReplyOver ==
    ReplyBytes(NOERROR,
               <<RecA(NameQ, Addr1, 1), RecCNAME(NameQ, HostFull, 1), RecCNAME(NameQ, HostFull, 1),
                 RecCNAME(NameQ, HostFull, 1), RecCNAME(NameQ, HostOver, 1)>>, <<>>, <<>>)

UpstreamReplies ==
    { ReplyBytes(NOERROR, <<RecA(NameQ, Addr1, 1)>>, <<RecNS(NameZone, NameNs, 1)>>,
                 <<RecA(NameNs, Addr2, 1)>>),
      ReplyBytes(NOERROR, <<RecCNAME(NameQ, NameC, 1), RecA(NameCUpper, Addr2, 1)>>,
                 <<>>, <<>>),
      ReplyBytes(NOERROR, <<RecCNAME(NameQ, NameC, 1)>>, <<>>, <<>>),
      ReplyBytes(NXDOMAIN, <<>>, <<>>, <<>>),
      ReplyBytes(NOERROR, <<>>, <<RecNS(NameZone, NameNs, 1)>>, <<RecA(NameNs, Addr2, 1)>>),
      ReplyBytes(NOERROR, <<>>, <<RecNS(NameZone, NameNs, 1)>>, <<>>),
      ReplyBytes(NOERROR, <<>>, <<>>, <<>>),
      ReplyFull,
      ReplyOver }

(***************************************************************************)
(* State.                                                                  *)
(***************************************************************************)
VARIABLES
    now,        \* Local::now()
    db,         \* the rows of table entries
    next_id,    \* the id the next INSERT gets
    lookups,    \* upstream exchanges made so far
    hs,         \* one query_handler task per datagram received
    cx          \* a buffer or a packet value on its own, and what was done to it

vars == <<now, db, next_id, lookups, hs, cx>>

\* The locals of inquiring and handling_record, before the resolver runs
\* and after it has returned.
NoLocals ==
    [current_ns |-> <<>>,
     currently_quering |-> <<>>,
     current_type |-> QTUnknown(0),
     search_for_qname |-> TRUE,
     cr |-> NoRow,
     record |-> RecordBase("UNKNOWN", <<>>, 0),
     upstream |-> PacketNew,
     after |-> ""]

\* A task before its datagram is received.  pc is the await the task is at;
\* request, question, response and loc are the locals of query_handler,
\* compose_response and inquiring; the last group is the record of what
\* the task did (resolved and result: inquiring returned Ok(result); ret:
\* the return of inquiring that was taken; fetched: the row the last
\* SELECT of the task gave, NoRow for none; reply: the last response lookup gave).
HandlerInit ==
    [pc |-> "idle",
     request |-> PacketNew,
     question |-> QuestionNew(<<>>, QTUnknown(0)),
     loc |-> NoLocals,
     response |-> PacketNew,
     \* what the task did
     dgram_len |-> 0,
     dgram_id |-> 0,
     dgram_flags |-> 0,
     asked |-> FALSE,
     after_done |-> {},
     parsed |-> FALSE,
     path |-> "",
     sends |-> <<>>,
     n_lookups |-> 0,
     n_cache |-> 0,
     had_valid |-> FALSE,
     inserted |-> {},
     evicted |-> {},
     missed |-> {},
     store_failed |-> FALSE,
     resolver_err |-> FALSE,
     resolved |-> FALSE,
     result |-> PacketNew,
     ret |-> "",
     fetched |-> NoRow,
     reply |-> PacketNew]

\* No value is under trial: the server runs.
NoCase == [op |-> "none"]

Init ==
    /\ now = 0
    /\ db = {}
    /\ next_id = 1
    /\ lookups = 0
    /\ hs = [h \in Handlers |-> HandlerInit]
    /\ cx = NoCase

Min(a, b) == IF a < b THEN a ELSE b

Set(h, rec) == hs' = [hs EXCEPT ![h] = rec]

\* The task has returned, or has panicked.
Ended(pc) == pc \in {"done", "panicked"}

(***************************************************************************)
(* goofy_workaround: the whole 512-byte buffer of the error packet is      *)
(* sent; the result of send_to is dropped.  sends is the sequence of       *)
(* send_to calls the task made: data the bytes written to the buffer sent, *)
(* len the number of bytes sent (the bytes after data are zero), failed    *)
(* whether the task was told that the call failed.                         *)
(***************************************************************************)
GoofyWorkaround(sends, id, rescode) ==
    LET res_buffer == NewErrorPacket(rescode, id)
    IN  IF ~res_buffer.ok THEN sends
        ELSE Append(sends, [data |-> res_buffer.out, len |-> BufSize, failed |-> FALSE])

(***************************************************************************)
(* query_handler from the response to its end: write, get_range, send_to,  *)
(* and goofy_workaround where one of them fails.  sent is the result of    *)
(* send_to.  The locals of the task are dropped.                           *)
(***************************************************************************)
Respond(me, response, sent) ==
    The({ [me EXCEPT
             !.pc = "done",
             !.loc = NoLocals,
             !.response = response,
             !.sends =
                IF ~res_buffer.ok \/ ~GetRange(res_buffer.out, 0, Len(res_buffer.out)).ok
                THEN GoofyWorkaround(me.sends, me.request.header.id, SERVFAIL)
                ELSE IF sent
                THEN Append(me.sends, [data |-> res_buffer.out,
                                       len |-> Len(res_buffer.out), failed |-> FALSE])
                ELSE GoofyWorkaround(
                         Append(me.sends, [data |-> res_buffer.out,
                                           len |-> Len(res_buffer.out), failed |-> TRUE]),
                         me.request.header.id, SERVFAIL)]
          : res_buffer \in One(PacketWrite(WriterNew, response)) })

(***************************************************************************)
(* compose_response: the response header, and the three ways it is filled. *)
(***************************************************************************)
ResponseHeader(request) ==
    [PacketNew EXCEPT !.header.id = request.header.id,
                      !.header.recursion_desired = TRUE,
                      !.header.recursion_available = TRUE,
                      !.header.response = TRUE]

\* The authority section left out of the response.
ComposeOkNoAuthority(request, question, result) ==
    [ResponseHeader(request) EXCEPT !.questions = <<question>>,
                                    !.header.rescode = result.header.rescode,
                                    !.answers = result.answers,
                                    !.resources = result.resources]

ComposeOk(request, question, result) ==
    [ResponseHeader(request) EXCEPT !.questions = <<question>>,
                                    !.header.rescode = result.header.rescode,
                                    !.answers = result.answers,
                                    !.authorities = result.authorities,
                                    !.resources = result.resources]

\* The resolver's error answered as a refusal.
ComposeErrRefused(request) == [ResponseHeader(request) EXCEPT !.header.rescode = REFUSED]

ComposeErr(request) == [ResponseHeader(request) EXCEPT !.header.rescode = SERVFAIL]

ComposeNoQuestion(request) == [ResponseHeader(request) EXCEPT !.header.rescode = FORMERR]

(***************************************************************************)
(* cached_compose_response: the packets it returns.                        *)
(***************************************************************************)
CachedHit(request, response) ==
    AddInfo(response, request.header.id, FALSE, TRUE, TRUE, response.header.rescode)

\* The miss answered as a success.
CachedMissNoError(request) ==
    AddInfo(PacketNew, request.header.id, FALSE, TRUE, TRUE, NOERROR)

CachedMiss(request) == AddInfo(PacketNew, request.header.id, FALSE, TRUE, TRUE, SERVFAIL)

CachedNoQuestion(request) ==
    AddInfo(PacketNew, request.header.id, FALSE, TRUE, TRUE, FORMERR)

\* Vec::pop on the questions of the request.
PopQuestion(request) ==
    [request EXCEPT !.questions = SubSeq(request.questions, 1, Len(request.questions) - 1)]

LastQuestion(request) == request.questions[Len(request.questions)]

\* The locals of inquiring as it enters its loop.
InquiringInit(question) ==
    [NoLocals EXCEPT !.current_ns = RootAddr,
                     !.currently_quering = question.qname,
                     !.current_type = question.qtype,
                     !.search_for_qname = TRUE]

(***************************************************************************)
(* query_handler from its start to its first await: the parse, the QR      *)
(* check, the RD dispatch and the pop of the question.                     *)
(***************************************************************************)
\* The QR check left out.
IsResponseNever(request) == FALSE

\* The request is a response: it is ignored.
IsResponse(request) == request.header.response

Start(me, parsed, sent) ==
    IF ~parsed.ok THEN
        [me EXCEPT !.pc = "done", !.path = "parse_fail",
                   !.sends = GoofyWorkaround(me.sends, 0, FORMERR)]
    ELSE IF IsResponse(parsed.val) THEN
        [me EXCEPT !.pc = "done", !.path = "dropped", !.parsed = TRUE,
                   !.request = parsed.val]
    ELSE IF ~parsed.val.header.recursion_desired THEN
        IF parsed.val.questions = <<>> THEN
            Respond([me EXCEPT !.path = "cached", !.parsed = TRUE,
                               !.request = parsed.val],
                    CachedNoQuestion(parsed.val), sent)
        ELSE
            [me EXCEPT !.pc = "cached_select", !.path = "cached", !.parsed = TRUE,
                       !.asked = TRUE,
                       !.request = PopQuestion(parsed.val),
                       !.question = LastQuestion(parsed.val)]
    ELSE
        IF parsed.val.questions = <<>> THEN
            Respond([me EXCEPT !.path = "recursive", !.parsed = TRUE,
                               !.request = parsed.val],
                    ComposeNoQuestion(parsed.val), sent)
        ELSE
            [me EXCEPT !.pc = "inq_select", !.path = "recursive", !.parsed = TRUE,
                       !.asked = TRUE,
                       !.request = PopQuestion(parsed.val),
                       !.question = LastQuestion(parsed.val),
                       !.loc = InquiringInit(LastQuestion(parsed.val))]

(***************************************************************************)
(* lib.rs run: one recv_from into a fresh zeroed buffer, one query_handler *)
(* task spawned for the datagram, and the task up to its first await.      *)
(* dgram_id and dgram_flags are the id field and the first flags byte of   *)
(* the datagram as it lies in the buffer, after_done the tasks that had    *)
(* ended when this datagram arrived, asked whether a question was popped.  *)
(***************************************************************************)
Spawn(h, d) ==
    /\ hs[h].pc = "idle"
    /\ \A g \in Handlers : g < h => hs[g].pc # "idle"
    /\ \E sent \in BOOLEAN, parsed \in One(PacketFromBuffer(SubSeq(d, 1, Min(Len(d), BufSize)))) :
         Set(h, Start([hs[h] EXCEPT
                         !.dgram_len = Len(d),
                         !.dgram_id = BufByte(d, 0) * 256 + BufByte(d, 1),
                         !.dgram_flags = BufByte(d, 2),
                         !.after_done = {g \in Handlers : Ended(hs[g].pc)}],
                      parsed, sent))

Recv(h, d) ==
    /\ Spawn(h, d)
    /\ UNCHANGED <<now, db, next_id, lookups, cx>>

(***************************************************************************)
(* The SELECT ... WHERE (domain = $1) LIMIT 1 of both paths.  The store    *)
(* may fail (fault); otherwise the query yields one of the matching rows,  *)
(* which one it does not say, or no row when none matches.  With no row    *)
(* fetch_one is an Err and fetch_all an empty vector: ok is FALSE for both.*)
\* A SELECT that finds no row, whatever the store holds.
FetchNone(rows, domain) == {[ok |-> FALSE, fault |-> FALSE, row |-> NoRow]}

(***************************************************************************)
FetchOne(rows, domain) ==
    {[ok |-> FALSE, fault |-> TRUE, row |-> NoRow]}
    \cup (IF Matching(rows, domain) = {}
          THEN {[ok |-> FALSE, fault |-> FALSE, row |-> NoRow]}
          ELSE {[ok |-> TRUE, fault |-> FALSE, row |-> r] : r \in Matching(rows, domain)})

\* The rows for domain that are valid at time t and give a record.
ValidRows(rows, domain, t) ==
    {r \in Matching(rows, domain) : IsValid(r, t) /\ RecordFromCache(r).ok}

(***************************************************************************)
(* cached_compose_response: the fetch_all and the only turn of the loop    *)
(* over its result that does not return, up to delete_from_db.  An empty   *)
(* result and an error give the same response.  had_valid is whether the   *)
(* store held a usable row for the name when it was read.                  *)
(***************************************************************************)
CachedSelect(h) ==
    LET me == hs[h] IN
    /\ me.pc = "cached_select"
    /\ \E res \in FetchOne(db, me.question.qname), sent \in BOOLEAN :
         LET hit == AddCrToAnswers(PacketNew, res.row)
             counted == [me EXCEPT !.n_cache = @ + 1,
                                   !.store_failed = @ \/ res.fault,
                                   !.fetched = res.row,
                                   !.had_valid =
                                       ValidRows(db, me.question.qname, now) # {}]
         IN  Set(h,
               IF ~res.ok THEN Respond(counted, CachedMiss(me.request), sent)
               ELSE IF IsValid(res.row, now) THEN
                   IF hit.ok THEN Respond(counted, CachedHit(me.request, hit.val), sent)
                   ELSE Respond(counted, CachedMiss(me.request), sent)
               ELSE
                   [counted EXCEPT !.pc = "cached_delete", !.loc.cr = res.row])
    /\ UNCHANGED <<now, db, next_id, lookups, cx>>

\* cached_compose_response: delete_from_db of the expired row, its result
\* only logged, then SERVFAIL.  missed is the expired rows the task went on
\* from as misses, evicted those of them it deleted.
CachedDelete(h) ==
    LET me == hs[h] IN
    /\ me.pc = "cached_delete"
    /\ \E deleted \in BOOLEAN, sent \in BOOLEAN :
         /\ db' = IF deleted THEN DeleteRow(db, me.loc.cr.id) ELSE db
         /\ Set(h, Respond([me EXCEPT
                              !.n_cache = @ + 1,
                              !.store_failed = @ \/ ~deleted,
                              !.evicted = IF deleted THEN @ \cup {me.loc.cr.id} ELSE @,
                              !.missed = @ \cup {me.loc.cr.id}],
                           CachedMiss(me.request), sent))
    /\ UNCHANGED <<now, next_id, lookups, cx>>

(***************************************************************************)
(* inquiring returns: Ok(result) and Err, as compose_response takes them.  *)
(***************************************************************************)
InqReturn(me, result, sent) ==
    Respond([me EXCEPT !.resolved = TRUE, !.result = result],
            ComposeOk(me.request, me.question, result), sent)

InqFail(me, sent) ==
    Respond([me EXCEPT !.resolver_err = TRUE, !.ret = "error"], ComposeErr(me.request), sent)

(***************************************************************************)
(* handling_record on a valid row.                                         *)
(***************************************************************************)
\* handling_record going on to the lookup with a usable row in hand.
HandlingValidGoesOn(me, cr, sent) == [me EXCEPT !.pc = "inq_lookup"]

\* handling_record failing inquiring on a row that does not convert.
HandlingValidAborts(me, cr, sent) ==
    IF ~me.loc.search_for_qname THEN [me EXCEPT !.pc = "inq_lookup"]
    ELSE IF AddCrToAnswers(PacketNew, cr).ok
    THEN InqReturn([me EXCEPT !.ret = "cache"], AddCrToAnswers(PacketNew, cr).val, sent)
    ELSE InqFail(me, sent)

HandlingValid(me, cr, sent) ==
    IF ~me.loc.search_for_qname THEN
        LET ip == Ipv4FromStr(cr.domain)
        IN  IF ~ip.ok THEN [me EXCEPT !.pc = "inq_lookup"]
            ELSE [me EXCEPT !.pc = "inq_lookup",
                            !.loc.current_ns = ip.val,
                            !.loc.currently_quering = me.question.qname,
                            !.loc.current_type = me.question.qtype,
                            !.loc.search_for_qname = TRUE]
    ELSE
        LET hit == AddCrToAnswers(PacketNew, cr)
        IN  IF hit.ok THEN InqReturn([me EXCEPT !.ret = "cache"], hit.val, sent)
            ELSE [me EXCEPT !.pc = "inq_lookup"]

(***************************************************************************)
(* inquiring, top of the loop: the fetch_one for currently_quering and     *)
(* handling_record up to its delete_from_db.                               *)
(***************************************************************************)
InqSelect(h) ==
    LET me == hs[h] IN
    /\ me.pc = "inq_select"
    /\ \E res \in FetchOne(db, me.loc.currently_quering), sent \in BOOLEAN :
         LET counted == [me EXCEPT !.n_cache = @ + 1,
                                   !.store_failed = @ \/ res.fault,
                                   !.fetched = res.row]
         IN  Set(h,
               IF ~res.ok THEN [counted EXCEPT !.pc = "inq_lookup"]
               ELSE IF IsValid(res.row, now)
               THEN HandlingValid(counted, res.row, sent)
               ELSE [counted EXCEPT !.pc = "inq_delete", !.loc.cr = res.row])
    /\ UNCHANGED <<now, db, next_id, lookups, cx>>

\* handling_record: delete_from_db of the expired row; the result is only
\* logged, and None is returned either way.
InqDelete(h) ==
    LET me == hs[h] IN
    /\ me.pc = "inq_delete"
    /\ \E deleted \in BOOLEAN :
         /\ db' = IF deleted THEN DeleteRow(db, me.loc.cr.id) ELSE db
         /\ Set(h, [me EXCEPT !.pc = "inq_lookup", !.n_cache = @ + 1,
                              !.loc.cr = NoRow,
                              !.store_failed = @ \/ ~deleted,
                              !.evicted = IF deleted THEN @ \cup {me.loc.cr.id} ELSE @,
                              !.missed = @ \cup {me.loc.cr.id}])
    /\ UNCHANGED <<now, next_id, lookups, cx>>

(***************************************************************************)
(* lookup: the query written to a buffer, one datagram out, one datagram   *)
(* in, parsed.  io is whether bind, send_to and recv_from all succeeded    *)
(* and reply the datagram received.                                        *)
(***************************************************************************)
LookupQuery(qname, qtype) ==
    [PacketNew EXCEPT !.header.id = LookupId,
                      !.header.questions = 1,
                      !.header.recursion_desired = TRUE,
                      !.questions = <<QuestionNew(qname, qtype)>>]

Lookup(qname, qtype, io, reply) ==
    IF ~PacketWrite(WriterNew, LookupQuery(qname, qtype)).ok \/ ~io
    THEN [ok |-> FALSE, val |-> PacketNew]
    ELSE The({ IF ~res.ok THEN [ok |-> FALSE, val |-> PacketNew]
               ELSE [ok |-> TRUE, val |-> res.val]
               : res \in One(PacketFromBuffer(SubSeq(reply, 1, Min(Len(reply), BufSize)))) })

LookupOutcomes ==
    {[io |-> FALSE, reply |-> <<>>]} \cup {[io |-> TRUE, reply |-> r] : r \in UpstreamReplies}

(***************************************************************************)
(* inquiring, after lookup: which branch the response takes.               *)
(***************************************************************************)
\* The name server's name looked up although its address came with it.
BranchUnresolvedFirst(response, search_for_qname, currently_quering) ==
    IF ~search_for_qname /\ GetRandomARec(response) # <<>> THEN "ns_found"
    ELSE IF response.answers # <<>> /\ response.header.rescode = NOERROR THEN
        IF GetRandomARec(response) = <<>> THEN "panic" ELSE "answer"
    ELSE IF response.header.rescode = NXDOMAIN THEN "nxdomain"
    ELSE IF GetUnresolvedNs(response, currently_quering) # <<>> THEN "unresolved"
    ELSE IF GetResolvedNs(response, currently_quering) # <<>> THEN "glue"
    ELSE "fallback"

\* A referral without glue returned as the answer.
BranchNeverUnresolved(response, search_for_qname, currently_quering) ==
    IF ~search_for_qname /\ GetRandomARec(response) # <<>> THEN "ns_found"
    ELSE IF response.answers # <<>> /\ response.header.rescode = NOERROR THEN
        IF GetRandomARec(response) = <<>> THEN "panic" ELSE "answer"
    ELSE IF response.header.rescode = NXDOMAIN THEN "nxdomain"
    ELSE IF GetResolvedNs(response, currently_quering) # <<>> THEN "glue"
    ELSE "fallback"

\* A referral with glue returned as the answer.
BranchGlueIsFinal(response, search_for_qname, currently_quering) ==
    IF ~search_for_qname /\ GetRandomARec(response) # <<>> THEN "ns_found"
    ELSE IF response.answers # <<>> /\ response.header.rescode = NOERROR THEN
        IF GetRandomARec(response) = <<>> THEN "panic" ELSE "answer"
    ELSE IF response.header.rescode = NXDOMAIN THEN "nxdomain"
    ELSE IF GetResolvedNs(response, currently_quering) # <<>> THEN "fallback"
    ELSE IF GetUnresolvedNs(response, currently_quering) # <<>> THEN "unresolved"
    ELSE "fallback"

Branch(response, search_for_qname, currently_quering) ==
    IF ~search_for_qname /\ GetRandomARec(response) # <<>> THEN "ns_found"
    ELSE IF response.answers # <<>> /\ response.header.rescode = NOERROR THEN
        IF GetRandomARec(response) = <<>> THEN "panic" ELSE "answer"
    ELSE IF response.header.rescode = NXDOMAIN THEN "nxdomain"
    ELSE IF GetResolvedNs(response, currently_quering) # <<>> THEN "glue"
    ELSE IF GetUnresolvedNs(response, currently_quering) # <<>> THEN "unresolved"
    ELSE "fallback"

\* inquiring from the result of lookup to its next await or its return.
AfterLookup(me, res, sent) ==
    LET response == res.val
        branch == Branch(response, me.loc.search_for_qname, me.loc.currently_quering)
    IN  IF ~res.ok THEN InqFail(me, sent)
        ELSE CASE branch = "ns_found" ->
                    [me EXCEPT !.pc = "inq_register", !.loc.after = branch,
                               !.loc.record = GetRandomARec(response)[1]]
               [] branch = "answer" ->
                    [me EXCEPT !.pc = "inq_register", !.loc.after = branch,
                               !.loc.upstream = response,
                               !.loc.record = GetRandomARec(response)[1]]
               [] branch = "panic" ->
                    \* Option::unwrap on None: the task panics, nothing is sent.
                    [me EXCEPT !.pc = "panicked", !.loc = NoLocals]
               [] branch = "nxdomain" ->
                    InqReturn([me EXCEPT !.ret = "nxdomain"], response, sent)
               [] branch = "glue" ->
                    [me EXCEPT !.pc = "inq_register", !.loc.after = branch,
                               !.loc.record =
                                   GetResolvedNs(response, me.loc.currently_quering)[1]]
               [] branch = "unresolved" ->
                    [me EXCEPT !.pc = "inq_select",
                               !.loc.currently_quering =
                                   GetUnresolvedNs(response, me.loc.currently_quering)[1],
                               !.loc.current_type = QT("A"),
                               !.loc.search_for_qname = FALSE,
                               !.loc.current_ns = RootAddr]
               [] OTHER -> InqReturn([me EXCEPT !.ret = "fallback"], response, sent)

InqLookup(h) ==
    LET me == hs[h] IN
    /\ me.pc = "inq_lookup"
    /\ lookups < MaxLookups
    /\ lookups' = lookups + 1
    /\ \E o \in LookupOutcomes, sent \in BOOLEAN :
         \E res \in One(Lookup(me.loc.currently_quering, me.loc.current_type,
                               o.io, o.reply)) :
            Set(h, AfterLookup([me EXCEPT !.n_lookups = @ + 1, !.reply = res.val],
                               res, sent))
    /\ UNCHANGED <<now, db, next_id, cx>>

(***************************************************************************)
(* Record::register_record of the A record chosen, and what inquiring      *)
(* does with its result in each of the three places it is called.          *)
(***************************************************************************)
\* The name server found, and the search going on for its name.
AfterRegisterKeepsName(me, sent) ==
    LET cleared == [me EXCEPT !.loc.record = NoLocals.record,
                              !.loc.upstream = NoLocals.upstream,
                              !.loc.after = NoLocals.after]
    IN  CASE me.loc.after = "ns_found" ->
               [cleared EXCEPT !.pc = "inq_select",
                               !.loc.current_ns = me.loc.record.addr,
                               !.loc.search_for_qname = TRUE]
          [] me.loc.after = "answer" ->
               Respond([me EXCEPT !.resolved = TRUE, !.result = me.loc.upstream,
                                  !.ret = "answer"],
                       ComposeOk(me.request, me.question, me.loc.upstream), sent)
          [] OTHER ->
               [cleared EXCEPT !.pc = "inq_select",
                               !.loc.current_ns = me.loc.record.addr]

\* The resolver returning the referral once its glue record is stored.
AfterRegisterReturns(me, sent) ==
    CASE me.loc.after = "ns_found" ->
           [me EXCEPT !.pc = "inq_select",
                      !.loc.record = NoLocals.record,
                      !.loc.upstream = NoLocals.upstream,
                      !.loc.after = NoLocals.after,
                      !.loc.current_ns = me.loc.record.addr,
                      !.loc.currently_quering = me.question.qname,
                      !.loc.current_type = me.question.qtype,
                      !.loc.search_for_qname = TRUE]
      [] OTHER -> InqReturn([me EXCEPT !.ret = "answer"], me.reply, sent)

AfterRegister(me, sent) ==
    LET cleared == [me EXCEPT !.loc.record = NoLocals.record,
                              !.loc.upstream = NoLocals.upstream,
                              !.loc.after = NoLocals.after]
    IN  CASE me.loc.after = "ns_found" ->
               [cleared EXCEPT !.pc = "inq_select",
                               !.loc.current_ns = me.loc.record.addr,
                               !.loc.currently_quering = me.question.qname,
                               !.loc.current_type = me.question.qtype,
                               !.loc.search_for_qname = TRUE]
          [] me.loc.after = "answer" ->
               InqReturn([me EXCEPT !.ret = "answer"], me.loc.upstream, sent)
          [] OTHER ->
               [cleared EXCEPT !.pc = "inq_select",
                               !.loc.current_ns = me.loc.record.addr]

InqRegister(h) ==
    LET me == hs[h] IN
    /\ me.pc = "inq_register"
    /\ \E inserted \in BOOLEAN, sent \in BOOLEAN :
         IF ~inserted THEN
             /\ Set(h, InqFail([me EXCEPT !.n_cache = @ + 1, !.store_failed = TRUE],
                               sent))
             /\ UNCHANGED <<db, next_id>>
         ELSE
             /\ db' = db \cup {NewRow(next_id, me.loc.record, now)}
             /\ next_id' = next_id + 1
             /\ Set(h, AfterRegister([me EXCEPT !.n_cache = @ + 1,
                                                !.inserted = @ \cup {next_id}], sent))
    /\ UNCHANGED <<now, lookups, cx>>

\* Time passes.
Tick ==
    /\ now < MaxTime
    /\ now' = now + 1
    /\ UNCHANGED <<db, next_id, lookups, hs, cx>>

Next ==
    \/ \E h \in Handlers, d \in Datagrams : Recv(h, d)
    \/ \E h \in Handlers : CachedSelect(h)
    \/ \E h \in Handlers : CachedDelete(h)
    \/ \E h \in Handlers : InqSelect(h)
    \/ \E h \in Handlers : InqDelete(h)
    \/ \E h \in Handlers : InqLookup(h)
    \/ \E h \in Handlers : InqRegister(h)
    \/ Tick

Spec == Init /\ [][Next]_vars

(***************************************************************************)
(* What a task sent, read from the bytes of its datagrams.                 *)
(***************************************************************************)
SentId(s) == s.data[1] * 256 + s.data[2]
SentQR(s) == s.data[3] >= 128
SentRescode(s) == s.data[4] % 16
SentAnswers(s) == s.data[7] * 256 + s.data[8]

\* The datagrams of a task that left the socket.
Responses(me) == {i \in 1..Len(me.sends) : ~me.sends[i].failed}

\* No send_to of the task has failed.
NoSendFailure(me) == \A i \in 1..Len(me.sends) : ~me.sends[i].failed

\* The QR and RD bits of the datagram received.
DgramQR(me) == me.dgram_flags >= 128
DgramRD(me) == me.dgram_flags % 2 = 1

(***************************************************************************)
(* C1.  The claim: every response a task sends carries the transaction id  *)
(* of the datagram it answers, on every path of the handler, the parse     *)
(* failure included.  Stated for the datagrams that hold a whole header.   *)
(* The parse-failure path answers with id 0 whatever the datagram's id.    *)
(***************************************************************************)
C1_ResponseIdEqualsRequestId ==
    \A h \in Handlers :
        hs[h].dgram_len >= 12 =>
            \A i \in Responses(hs[h]) : SentId(hs[h].sends[i]) = hs[h].dgram_id

\* A task answered a datagram whose id is ClientId with id 0.
C1_ParseFailureAnsweredWithIdZero ==
    \E h \in Handlers :
        /\ hs[h].pc = "done" /\ hs[h].path = "parse_fail"
        /\ hs[h].dgram_len >= 12 /\ hs[h].dgram_id = ClientId
        /\ Len(hs[h].sends) = 1 /\ SentId(hs[h].sends[1]) = 0

(***************************************************************************)
(* C2.  A request that parses and whose QR bit is set is dropped: the task *)
(* sends nothing, and makes no cache access and no upstream lookup.        *)
(***************************************************************************)
C2_QrSetRequestIsDropped ==
    \A h \in Handlers :
        (hs[h].parsed /\ DgramQR(hs[h])) =>
            /\ hs[h].pc = "done"
            /\ hs[h].sends = <<>>
            /\ hs[h].n_cache = 0
            /\ hs[h].n_lookups = 0

C2_QrSetRequestReceived ==
    \E h \in Handlers :
        /\ hs[h].parsed /\ DgramQR(hs[h]) /\ hs[h].asked = FALSE
        /\ hs[h].request.questions # <<>>
        /\ hs[h].pc = "done" /\ hs[h].sends = <<>>

(***************************************************************************)
(* C3.  For a request with RD clear no upstream lookup is made; and when   *)
(* the store held no valid row for the name asked, every response of the   *)
(* task has QR set, the id of the request, rescode SERVFAIL and no answer, *)
(* and there is one.                                                       *)
(***************************************************************************)
C3_RdClearNeverLooksUp ==
    \A h \in Handlers :
        (hs[h].parsed /\ ~DgramQR(hs[h]) /\ ~DgramRD(hs[h])) =>
            /\ hs[h].n_lookups = 0
            /\ hs[h].path = "cached"
            /\ (hs[h].pc = "done" /\ hs[h].asked /\ ~hs[h].had_valid) =>
                   /\ Responses(hs[h]) # {}
                   /\ \A i \in Responses(hs[h]) :
                        /\ SentQR(hs[h].sends[i])
                        /\ SentId(hs[h].sends[i]) = hs[h].dgram_id
                        /\ SentRescode(hs[h].sends[i]) = SERVFAIL
                        /\ SentAnswers(hs[h].sends[i]) = 0

C3_ColdCacheAnswered ==
    \E h \in Handlers :
        /\ hs[h].pc = "done" /\ hs[h].path = "cached" /\ hs[h].asked
        /\ ~hs[h].had_valid /\ ~hs[h].store_failed
        /\ hs[h].question.qname = NameQ
        /\ Len(hs[h].sends) = 1 /\ NoSendFailure(hs[h])
        /\ SentRescode(hs[h].sends[1]) = SERVFAIL

(***************************************************************************)
(* C4.  The claim: once a recursive A query for a name has been answered   *)
(* with NOERROR and an answer, the same question with RD clear, asked      *)
(* after it while no ttl of the answer has run out, is answered with       *)
(* NOERROR and a first answer that is an A record for the name with the    *)
(* address of the first answer of the recursive response.  The resolver    *)
(* stores the first A record under that record's owner: when the answer    *)
(* starts with a CNAME the name asked is not in the store.                 *)
(***************************************************************************)
\* The packet a datagram sent holds.
SentPacket(s) == PacketFromBuffer(s.data).val

\* Task g has answered a recursive A query with NOERROR and an answer.
RecursiveAnswered(g) ==
    /\ hs[g].pc = "done" /\ hs[g].path = "recursive" /\ hs[g].asked
    /\ hs[g].question.qtype = QT("A")
    /\ Len(hs[g].sends) = 1 /\ NoSendFailure(hs[g])
    /\ SentRescode(hs[g].sends[1]) = NOERROR
    /\ SentAnswers(hs[g].sends[1]) >= 1

\* Task h has answered the question of g with RD clear, having received it
\* after g ended, the store not having failed it.
CachedAskedAfter(g, h) ==
    /\ g \in hs[h].after_done
    /\ hs[h].pc = "done" /\ hs[h].path = "cached" /\ hs[h].asked
    /\ hs[h].question = hs[g].question
    /\ ~hs[h].store_failed
    /\ Len(hs[h].sends) = 1 /\ NoSendFailure(hs[h])

\* No ttl of the answers of a packet has run out since time 0.
TtlsRunning(p) == \A i \in 1..Len(p.answers) : now <= p.answers[i].ttl

C4_WarmCacheAnswersRdClear ==
    \A g, h \in Handlers :
        (RecursiveAnswered(g) /\ CachedAskedAfter(g, h)
         /\ TtlsRunning(SentPacket(hs[g].sends[1]))) =>
            /\ SentRescode(hs[h].sends[1]) = NOERROR
            /\ SentAnswers(hs[h].sends[1]) >= 1
            /\ SentPacket(hs[h].sends[1]).answers[1].tag = "A"
            /\ SentPacket(hs[h].sends[1]).answers[1].domain = hs[h].question.qname
            /\ SentPacket(hs[h].sends[1]).answers[1].addr
                   = SentPacket(hs[g].sends[1]).answers[1].addr

\* The recursive answer began with a CNAME, and the same question with RD
\* clear, asked at once, got SERVFAIL.
C4_CnameAnswerNotServedFromCache ==
    \E g, h \in Handlers :
        /\ RecursiveAnswered(g) /\ CachedAskedAfter(g, h)
        /\ now = 0
        /\ SentPacket(hs[g].sends[1]).answers[1].tag = "CNAME"
        /\ hs[g].inserted # {}
        /\ SentRescode(hs[h].sends[1]) = SERVFAIL

(***************************************************************************)
(* C5.  The claim: with RD clear, when the store holds a valid row for     *)
(* the name asked the response carries it, whatever other rows the name    *)
(* has.  The query reads one row (LIMIT 1), and an expired row ends the    *)
(* loop with SERVFAIL.                                                     *)
(***************************************************************************)
C5_ValidRowIsServed ==
    \A h \in Handlers :
        (/\ hs[h].pc = "done" /\ hs[h].path = "cached" /\ hs[h].asked
         /\ hs[h].had_valid /\ ~hs[h].store_failed /\ NoSendFailure(hs[h])) =>
            \A i \in Responses(hs[h]) :
                /\ SentRescode(hs[h].sends[i]) = NOERROR
                /\ SentAnswers(hs[h].sends[i]) >= 1

\* The store held an expired and a valid row for the name; the expired one
\* was read and deleted, and SERVFAIL sent.
C5_ExpiredRowHidesValidRow ==
    \E h \in Handlers :
        /\ hs[h].pc = "done" /\ hs[h].path = "cached" /\ hs[h].asked
        /\ hs[h].had_valid /\ ~hs[h].store_failed
        /\ hs[h].evicted # {}
        /\ ValidRows(db, hs[h].question.qname, now) # {}
        /\ Len(hs[h].sends) = 1 /\ NoSendFailure(hs[h])
        /\ SentRescode(hs[h].sends[1]) = SERVFAIL

(***************************************************************************)
(* C6.  The claim: a row read expired is out of the store by the time the  *)
(* task goes on as from a miss.  missed holds the ids of the rows a task   *)
(* read expired and went on from.  delete_from_db may fail; its error is   *)
(* logged and the task goes on with the row still in the store.            *)
(***************************************************************************)
RowIds(rows) == {r.id : r \in rows}

C6_ExpiredRowDeletedBeforeMiss ==
    \A h \in Handlers : hs[h].missed \cap RowIds(db) = {}

\* A task went on to the upstream query, or returned its response, with
\* the expired row it had read still in the store.
C6_ExpiredRowLeftInStore ==
    \E h \in Handlers : \E r \in db :
        /\ r.id \in hs[h].missed /\ r.id \notin hs[h].evicted
        /\ ~IsValid(r, now)
        /\ hs[h].pc \in {"inq_lookup", "done"}

(***************************************************************************)
(* C7.  A row inserted with ttl t at time t0 expires at t0 + t; it is      *)
(* valid at every time from t0 to t0 + t and at no later time; and a row   *)
(* that is invalid stays invalid.                                          *)
(***************************************************************************)
RowLaw(r) ==
    /\ r.expiration_date = r.inserted_at + r.ttl
    /\ r.inserted_at <= now
    /\ \A t \in r.inserted_at..(MaxTime + 1) :
           IsValid(r, t) <=> t <= r.inserted_at + r.ttl

StaysInvalid ==
    \A r \in db : (r \in db' /\ ~IsValid(r, now)) => ~IsValid(r, now')

C7_ValidityWindow == [](\A r \in db : RowLaw(r)) /\ [][StaysInvalid]_vars

\* A row has outlived its ttl, and another is within it.
C7_RowExpired ==
    \E r, v \in db :
        /\ now > r.inserted_at + r.ttl /\ ~IsValid(r, now)
        /\ now <= v.inserted_at + v.ttl /\ IsValid(v, now)

C9_BadSizeGivesFormerr ==
    \A h \in Handlers :
        (hs[h].pc = "done" /\ NoSendFailure(hs[h])) =>
            /\ (hs[h].dgram_len < 12 \/ hs[h].dgram_len > BufSize) =>
                   /\ Responses(hs[h]) # {}
                   /\ \A i \in Responses(hs[h]) : SentRescode(hs[h].sends[i]) = FORMERR
            /\ (hs[h].parsed /\ ~DgramQR(hs[h]) /\ ~hs[h].asked) =>
                   /\ Responses(hs[h]) # {}
                   /\ \A i \in Responses(hs[h]) : SentRescode(hs[h].sends[i]) = FORMERR
                   /\ hs[h].n_cache = 0
                   /\ hs[h].n_lookups = 0

\* A datagram of six bytes was looked up in the store and answered with
\* SERVFAIL.
C9_ShortDatagramLookedUp ==
    \E h \in Handlers :
        /\ hs[h].pc = "done" /\ hs[h].dgram_len = 6
        /\ hs[h].path = "cached" /\ hs[h].asked /\ hs[h].question.qname = <<>>
        /\ hs[h].n_cache >= 1 /\ ~hs[h].store_failed
        /\ Len(hs[h].sends) = 1 /\ NoSendFailure(hs[h])
        /\ SentRescode(hs[h].sends[1]) = SERVFAIL

(***************************************************************************)
(* C10.  When the resolver returns an error (a lookup failed, or an        *)
(* insert failed) the task answers with SERVFAIL; and the rows the         *)
(* resolver had inserted are in the store still, but for those a task has  *)
(* since read expired and deleted.                                         *)
(***************************************************************************)
Evicted == UNION {hs[g].evicted : g \in Handlers}

C10_ResolverErrorGivesServfail ==
    \A h \in Handlers :
        hs[h].resolver_err =>
            /\ hs[h].pc = "done"
            /\ Responses(hs[h]) # {}
            /\ \A i \in Responses(hs[h]) :
                 /\ SentRescode(hs[h].sends[i]) = SERVFAIL
                 /\ SentId(hs[h].sends[i]) = hs[h].dgram_id
            /\ hs[h].inserted \subseteq RowIds(db) \cup Evicted

\* A resolver failed on its second lookup with the row of its first in
\* the store.
C10_FailedAfterInsert ==
    \E h \in Handlers :
        /\ hs[h].resolver_err /\ hs[h].n_lookups = 2
        /\ hs[h].inserted # {} /\ hs[h].inserted \subseteq RowIds(db)
        /\ SentRescode(hs[h].sends[1]) = SERVFAIL

(***************************************************************************)
(* C11.  When inquiring returned Ok(result) the response composed has the  *)
(* id of the request, QR, RA and RD set, the rescode of result and the     *)
(* three record sections of result, whole and in order; and the datagram   *)
(* sent, when it is the response as serialized, reads back as that.        *)
(***************************************************************************)
SameSections(p, q) ==
    /\ p.answers = q.answers
    /\ p.authorities = q.authorities
    /\ p.resources = q.resources

Mirrors(p, id, result) ==
    /\ p.header.id = id
    /\ p.header.response /\ p.header.recursion_available /\ p.header.recursion_desired
    /\ p.header.rescode = result.header.rescode
    /\ SameSections(p, result)

\* The first send of the task is the response as serialized (the error
\* packets are sent as whole buffers).
SentAsSerialized(me) == me.sends # <<>> /\ me.sends[1].len < BufSize

C11_ResolverResultIsMirrored ==
    \A h \in Handlers :
        hs[h].resolved =>
            /\ hs[h].pc = "done" /\ hs[h].path = "recursive"
            /\ Mirrors(hs[h].response, hs[h].dgram_id, hs[h].result)
            /\ hs[h].response.questions = <<hs[h].question>>
            /\ SentAsSerialized(hs[h]) =>
                   Mirrors(SentPacket(hs[h].sends[1]), hs[h].dgram_id, hs[h].result)

\* A result with an answer, an authority and an additional record was
\* returned and sent.
C11_ThreeSectionsReturned ==
    \E h \in Handlers :
        /\ hs[h].resolved /\ hs[h].n_lookups = 1
        /\ hs[h].result.answers # <<>>
        /\ hs[h].result.authorities # <<>>
        /\ hs[h].result.resources # <<>>
        /\ SentAsSerialized(hs[h]) /\ NoSendFailure(hs[h])
        /\ SentAnswers(hs[h].sends[1]) = 1

(***************************************************************************)
(* C12.  The claim: when Packet::write of the response fails the task      *)
(* sends SERVFAIL with the id of the request in its place; and when it     *)
(* succeeds the bytes written are what the task sends.  A response that    *)
(* fills the buffer is written, and get_range(0, 512) then fails.          *)
(***************************************************************************)
C12_SerializedResponseIsSent ==
    \A h \in Handlers :
        (hs[h].pc = "done" /\ hs[h].path \in {"cached", "recursive"}) =>
            \A w \in One(PacketWrite(WriterNew, hs[h].response)) :
                /\ hs[h].sends # <<>>
                /\ ~w.ok =>
                       /\ Len(hs[h].sends) = 1
                       /\ SentQR(hs[h].sends[1])
                       /\ SentRescode(hs[h].sends[1]) = SERVFAIL
                       /\ SentId(hs[h].sends[1]) = hs[h].dgram_id
                /\ w.ok =>
                       /\ hs[h].sends[1].data = w.out
                       /\ hs[h].sends[1].len = Len(w.out)

\* A response of 512 bytes was written whole and SERVFAIL sent for it.
C12_FullBufferReplaced ==
    \E h \in Handlers :
        /\ hs[h].pc = "done" /\ hs[h].resolved
        /\ hs[h].response.header.rescode = NOERROR
        /\ Len(hs[h].response.answers) = 5
        /\ hs[h].response.answers[5].host = HostFull
        /\ Len(hs[h].sends) = 1 /\ hs[h].sends[1].len = BufSize
        /\ SentRescode(hs[h].sends[1]) = SERVFAIL
        /\ SentAnswers(hs[h].sends[1]) = 0

(***************************************************************************)
(* C13.  The claim: a task calls send_to at most once; when the send of    *)
(* the response fails nothing more is sent.  After a failed send_to the    *)
(* handler calls goofy_workaround, which sends again.                      *)
(***************************************************************************)
C13_AtMostOneSend ==
    \A h \in Handlers : Len(hs[h].sends) <= 1

\* The send of the response failed and an error packet was sent after it.
C13_SentAgainAfterFailure ==
    \E h \in Handlers :
        /\ hs[h].pc = "done" /\ Len(hs[h].sends) = 2
        /\ hs[h].sends[1].failed /\ hs[h].sends[1].len < BufSize
        /\ ~hs[h].sends[2].failed /\ hs[h].sends[2].len = BufSize
        /\ SentRescode(hs[h].sends[2]) = SERVFAIL

(***************************************************************************)
(* The buffer and the packet types on their own: cx is a value of one of   *)
(* the types, with what a call of its methods made of it.  No datagram is  *)
(* received; the server's state stays as it starts.                        *)
(***************************************************************************)
ServerIdle ==
    /\ now = 0
    /\ db = {}
    /\ next_id = 1
    /\ lookups = 0
    /\ hs = [h \in Handlers |-> HandlerInit]

Flags == [recursion_desired : BOOLEAN, truncated_message : BOOLEAN,
          authoritative_answer : BOOLEAN, response : BOOLEAN,
          checking_disabled : BOOLEAN, authed_data : BOOLEAN,
          z : BOOLEAN, recursion_available : BOOLEAN]

WithFlags(h, f) ==
    [h EXCEPT !.recursion_desired = f.recursion_desired,
              !.truncated_message = f.truncated_message,
              !.authoritative_answer = f.authoritative_answer,
              !.response = f.response,
              !.checking_disabled = f.checking_disabled,
              !.authed_data = f.authed_data,
              !.z = f.z,
              !.recursion_available = f.recursion_available]

U16Edges == {0, 255, 256, 65535}

\* Header values: every combination of the eight flags, every opcode with
\* every rescode, and the ends of the range of the id and of the counts.
Headers ==
    { WithFlags([HeaderNew EXCEPT !.id = 43981, !.opcode = o, !.rescode = r,
                                  !.questions = 1, !.answers = 2,
                                  !.authoritative_entries = 3, !.resource_entries = 4], f)
      : f \in Flags, o \in {0, 15}, r \in {NOERROR, REFUSED} }
    \cup
    { [HeaderNew EXCEPT !.opcode = o, !.rescode = r, !.response = b, !.z = b]
      : o \in 0..15, r \in NOERROR..REFUSED, b \in BOOLEAN }
    \cup
    { [HeaderNew EXCEPT !.id = i, !.questions = q, !.answers = a,
                        !.authoritative_entries = n, !.resource_entries = e]
      : i \in U16Edges \cup {1}, q \in U16Edges, a \in U16Edges, n \in U16Edges,
        e \in U16Edges }

\* Header::write to a new buffer, then Header::read of the buffer.
HeaderRoundTrip ==
    /\ cx.op = "header" /\ cx.stage = "in"
    /\ \E w \in One(HeaderWrite(WriterNew, cx.h)) :
         cx' = [cx EXCEPT !.stage = "out", !.w = w, !.r = HeaderRead(w.out, 0)]
    /\ UNCHANGED <<now, db, next_id, lookups, hs>>

HeaderCases ==
    \E h \in Headers :
        cx = [op |-> "header", stage |-> "in", h |-> h, w |-> WriterNew,
              r |-> HeaderRead(<<>>, 0)]

\* A label of n bytes c, and a name as the labels it is made of.
LabelOf(n, c) == [i \in 1..n |-> c]

RECURSIVE Join(_)
Join(labels) ==
    IF Len(labels) = 1 THEN labels[1]
    ELSE labels[1] \o <<Dot>> \o Join(Tail(labels))

\* The bytes of a name on the wire: each label after its length, then zero.
RECURSIVE Wire(_)
Wire(labels) ==
    IF labels = <<>> THEN <<0>>
    ELSE <<Len(labels[1])>> \o labels[1] \o Wire(Tail(labels))

LabelLens == {1, 2, 52, 53, 63, 64}

\* Names of one, two and four labels, in lower and upper case, with labels
\* at and about the limits of 52 and 63 bytes, and names with empty labels.
LabelLists ==
    { <<LabelOf(n, c)>> : n \in LabelLens, c \in {97, 81} }
    \cup { <<LabelOf(n, 97), LabelOf(m, 81)>> : n \in LabelLens, m \in LabelLens }
    \cup { <<LabelOf(63, 97), LabelOf(63, 98), LabelOf(63, 99), LabelOf(n, 100)>>
           : n \in {61, 63} }
    \cup { <<LabelOf(52, 97), LabelOf(52, 98), LabelOf(52, 99), LabelOf(52, 100)>>,
           <<<<>>>>, <<<<97>>, <<>>>>, <<<<>>, <<97>>>>, <<<<97>>, <<>>, <<98>>>> }

\* Where the name is written: at the start, after a header, and so that it
\* ends with the buffer or one byte after it.
Starts(labels) == {0, 12, BufSize - Len(Wire(labels)), BufSize + 1 - Len(Wire(labels))}

QnameCases ==
    \E labels \in LabelLists : \E start \in Starts(labels) :
        cx = [op |-> "qname", stage |-> "in", labels |-> labels, name |-> Join(labels),
              start |-> start, w |-> WriterNew, r |-> ReadQname(<<>>, 0)]

\* write_qname at position start of a buffer, then read_qname from start.
QnameRoundTrip ==
    /\ cx.op = "qname" /\ cx.stage = "in"
    /\ \E w \in One(WriteQname([ok |-> TRUE, out |-> LabelOf(cx.start, 7)], cx.name)) :
         cx' = [cx EXCEPT !.stage = "out", !.w = w, !.r = ReadQname(w.out, cx.start)]
    /\ UNCHANGED <<now, db, next_id, lookups, hs>>

\* A compression pointer to offset off.
Ptr(off) == <<192 + off \div 256, off % 256>>

\* k pointers, each to the two bytes after it, and then the name a.
RECURSIVE Chain(_, _)
Chain(k, at) == IF k = 0 THEN <<1, 97, 0>> ELSE Ptr(at + 2) \o Chain(k - 1, at + 2)

\* What the bytes of a name ask of a decoder that follows every pointer:
\* ptrs is the pointers followed before the name ends (end "done"), runs off
\* the buffer ("off"), or fuel pointers have been followed ("fuel").
RECURSIVE Decode(_, _, _, _)
Decode(buf, pos, fuel, ptrs) ==
    IF pos >= BufSize THEN [end |-> "off", ptrs |-> ptrs]
    ELSE IF BufByte(buf, pos) >= 192 THEN
        IF pos + 1 >= BufSize THEN [end |-> "off", ptrs |-> ptrs]
        ELSE IF fuel = 0 THEN [end |-> "fuel", ptrs |-> ptrs]
        ELSE Decode(buf, (BufByte(buf, pos) - 192) * 256 + BufByte(buf, pos + 1),
                    fuel - 1, ptrs + 1)
    ELSE IF BufByte(buf, pos) = 0 THEN [end |-> "done", ptrs |-> ptrs]
    ELSE IF pos + 1 + BufByte(buf, pos) >= BufSize THEN [end |-> "off", ptrs |-> ptrs]
    ELSE Decode(buf, pos + 1 + BufByte(buf, pos), fuel, ptrs)

ByteKinds == {0, 1, 2, 192, 200}

\* Every buffer of four bytes of ByteKinds, read from each of them, and the
\* chains of up to MaxChain pointers; the bytes after are zero.
MaxChain == 8

JumpCases ==
    \/ \E buf \in [1..4 -> ByteKinds], pos \in 0..3 :
         cx = [op |-> "jumps", stage |-> "in", buf |-> buf, pos |-> pos,
               r |-> ReadQname(<<>>, 0)]
    \/ \E k \in 0..MaxChain, pos \in {0, 2} :
         cx = [op |-> "jumps", stage |-> "in", buf |-> Chain(k, 0), pos |-> pos,
               r |-> ReadQname(<<>>, 0)]

\* read_qname with the cursor at pos.
ReadName ==
    /\ cx.op = "jumps" /\ cx.stage = "in"
    /\ cx' = [cx EXCEPT !.stage = "out", !.r = ReadQname(cx.buf, cx.pos)]
    /\ UNCHANGED <<now, db, next_id, lookups, hs>>

\* A name on the wire in a packet that compresses names (packed): the labels
\* own and a pointer to offset to; or all its labels, written out.
Name(packed, own, to, full) ==
    IF packed THEN SubSeq(Wire(own), 1, Len(Wire(own)) - 1) \o Ptr(to)
    ELSE Wire(full)

Be16(v) == <<v \div 256, v % 256>>

\* A record on the wire: owner name, type, class IN, ttl 60, data.
RR(owner, type, data) ==
    owner \o Be16(type) \o Be16(1) \o <<0, 0, 0, 60>> \o Be16(Len(data)) \o data

\* The data of a record of type t whose host is the name host: NS, CNAME,
\* MX (a preference first), and a type the parser does not know.
DataOf(t, host) ==
    IF t = 15 THEN Be16(10) \o host
    ELSE IF t \in {2, 5} THEN host
    ELSE <<7, 7, 7>>

\* A response to the question a.b (a of n bytes) with two answers, an
\* authority and an additional record.  Packed, every later name ends in a
\* pointer: to the question's name, to its label b, to the host of the
\* authority, and (deep) to the pointer that is the first answer's owner.
Reply(packed, n, t, deep) ==
    LET a == LabelOf(n, 97)
        b == <<98>>
        c == <<99>>
        ns == <<110>>
        offB == 13 + n
        head == <<0, 7, 129, 128>> \o Be16(1) \o Be16(2) \o Be16(1) \o Be16(1)
        q == Wire(<<a, b>>) \o Be16(1) \o Be16(1)
        a1 == RR(Name(packed, <<>>, 12, <<a, b>>), 1, <<1, 2, 3, 4>>)
        a2 == RR(Name(packed, <<>>, IF deep THEN 12 + Len(q) ELSE 12, <<a, b>>), t,
                 DataOf(t, Name(packed, <<c>>, offB, <<c, b>>)))
        atNs == 12 + Len(q) + Len(a1) + Len(a2) + 2 + 10
        au == RR(Name(packed, <<>>, offB, <<b>>), 2,
                 Name(packed, <<ns>>, offB, <<ns, b>>))
        ar == RR(Name(packed, <<>>, atNs, <<ns, b>>), 1, <<5, 6, 7, 8>>)
    IN  head \o q \o a1 \o a2 \o au \o ar

\* Where names that end in a pointer start in Reply(TRUE, n, t, deep), each
\* with the offset just past its pointer.
Marks(n, t, deep) ==
    LET q == 12 + (n + 4) + 4
        a2 == q + 16
        host == a2 + 12 + (IF t = 15 THEN 2 ELSE 0)
    IN  {<<q, q + 2>>, <<a2, a2 + 2>>} \cup
        (IF t \in {2, 5, 15} THEN {<<host, host + 4>>} ELSE {})

CompressCases ==
    \E n \in {1, 3, 52}, t \in {2, 5, 15, 16}, deep \in BOOLEAN :
        cx = [op |-> "compress", stage |-> "in",
              packed |-> Reply(TRUE, n, t, deep), plain |-> Reply(FALSE, n, t, deep),
              marks |-> Marks(n, t, deep), after |-> {},
              rp |-> PacketBad, rq |-> PacketBad]

\* Packet::from_buffer of the packet with pointers and of the one without,
\* and read_qname at each marked name of the first.
ParseBoth ==
    /\ cx.op = "compress" /\ cx.stage = "in"
    /\ cx' = [cx EXCEPT !.stage = "out",
                        !.rp = PacketFromBuffer(cx.packed),
                        !.rq = PacketFromBuffer(cx.plain),
                        !.after = {<<m[1], ReadQname(cx.packed, m[1]).pos>> : m \in cx.marks}]
    /\ UNCHANGED <<now, db, next_id, lookups, hs>>

\* Packets of none to five entries a section, one of them too long for the
\* buffer, each with every header count at c before it is written.
CountsBefore == {0, 3, 65535}

PacketCases ==
    \E qs \in {<<>>, <<QuestionNew(NameQ, QT("A"))>>,
               <<QuestionNew(NameQ, QT("A")), QuestionNew(NameC, QT("MX"))>>},
       an \in {<<>>, <<RecA(NameQ, Addr1, 1)>>,
               <<RecCNAME(NameQ, NameC, 1), RecA(NameC, Addr1, 1)>>,
               [i \in 1..5 |-> RecCNAME(NameQ, HostFull, 1)]},
       au \in {<<>>, <<RecNS(NameZone, NameNs, 1)>>},
       ar \in {<<>>, <<RecA(NameNs, Addr2, 1)>>,
               [i \in 1..3 |-> RecA(NameNs, Addr2, 1)]},
       c \in CountsBefore :
        cx = [op |-> "packet", stage |-> "in",
              p |-> [header |-> [HeaderNew EXCEPT !.questions = c, !.answers = c,
                                                  !.authoritative_entries = c,
                                                  !.resource_entries = c],
                     questions |-> qs, answers |-> an,
                     authorities |-> au, resources |-> ar],
              w |-> WriterNew]

\* Packet::write into a new buffer: the packet with its header completed,
\* and the buffer.
WritePacket ==
    /\ cx.op = "packet" /\ cx.stage = "in"
    /\ cx' = [cx EXCEPT !.stage = "out",
                        !.p = PacketCounted(cx.p),
                        !.w = PacketWrite(WriterNew, cx.p)]
    /\ UNCHANGED <<now, db, next_id, lookups, hs>>

\* buf with the bytes written over it from pos on, as far as the buffer goes.
Put(buf, pos, bytes) ==
    [i \in 1..(IF pos + Len(bytes) >= BufSize THEN BufSize
               ELSE IF pos + Len(bytes) > Len(buf) THEN pos + Len(bytes)
               ELSE Len(buf)) |->
        IF i > pos /\ i <= pos + Len(bytes) THEN bytes[i - pos] ELSE BufByte(buf, i - 1)]

\* Buffers a cursor is moved over: zeros; a record of an unknown type that
\* declares len bytes of data; and a buffer whose last byte starts a pointer.
\* A ttl is kept as one integer below 2^31, so no byte that can be read as
\* the first of a ttl is above 127.
MaxOps == 3
DataLens == {0, 600, 32512}

CursorCases ==
    \/ cx = [op |-> "cursor", stage |-> "in", buf |-> <<>>, pos |-> 0,
             ok |-> TRUE, n |-> 0]
    \/ \E len \in DataLens :
         cx = [op |-> "cursor", stage |-> "in",
               buf |-> <<0>> \o Be16(99) \o Be16(1) \o <<0, 0, 0, 60>> \o Be16(len),
               pos |-> 0, ok |-> TRUE, n |-> 0]
    \/ cx = [op |-> "cursor", stage |-> "in", buf |-> LabelOf(511, 0) \o <<192>>,
             pos |-> 0, ok |-> TRUE, n |-> 0]

\* The cursor case after one more operation that left the cursor at pos.
Moved(ok, pos) ==
    [cx EXCEPT !.ok = ok, !.pos = pos, !.n = cx.n + 1,
               !.stage = IF cx.n + 1 = MaxOps THEN "out" ELSE "in"]

CanMove == cx.op = "cursor" /\ cx.stage = "in" /\ cx.n < MaxOps

\* read_u8, read_u16 or read_u32
ReadInt ==
    /\ CanMove
    /\ \E k \in {1, 2, 4} :
         LET r == IF k = 1 THEN ReadU8(cx.buf, cx.pos)
                  ELSE IF k = 2 THEN ReadU16(cx.buf, cx.pos)
                  ELSE ReadU32(cx.buf, cx.pos)
         IN  cx' = Moved(r.ok, r.pos)
    /\ UNCHANGED <<now, db, next_id, lookups, hs>>

\* write_u8, write_u16 or write_u32: each byte is written by write_u8, which
\* fails at the end of the buffer.
WriteInt ==
    /\ CanMove
    /\ \E k \in {1, 2, 4} :
         cx' = [Moved(cx.pos + k <= BufSize,
                      IF cx.pos + k <= BufSize THEN cx.pos + k ELSE ReadErr(cx.pos).pos)
                EXCEPT !.buf = Put(cx.buf, cx.pos, LabelOf(k, 1))]
    /\ UNCHANGED <<now, db, next_id, lookups, hs>>

\* BytePacketBuffer::seek
Seek(pos) == [ok |-> TRUE, pos |-> pos]

\* BytePacketBuffer::step
Step(cursor, steps) == [ok |-> TRUE, pos |-> cursor + steps]

SeekTo ==
    /\ CanMove
    /\ \E pos \in {0, 511, 513} : cx' = Moved(Seek(pos).ok, Seek(pos).pos)
    /\ UNCHANGED <<now, db, next_id, lookups, hs>>

StepBy ==
    /\ CanMove
    /\ \E steps \in {1, 600} :
         cx' = Moved(Step(cx.pos, steps).ok, Step(cx.pos, steps).pos)
    /\ UNCHANGED <<now, db, next_id, lookups, hs>>

\* read_qname at the cursor
ReadNameAt ==
    /\ CanMove
    /\ cx' = Moved(ReadQname(cx.buf, cx.pos).ok, ReadQname(cx.buf, cx.pos).pos)
    /\ UNCHANGED <<now, db, next_id, lookups, hs>>

\* Record::read at the cursor
ReadRecordAt ==
    /\ CanMove
    /\ cx' = Moved(RecordRead(cx.buf, cx.pos).ok, RecordRead(cx.buf, cx.pos).pos)
    /\ UNCHANGED <<now, db, next_id, lookups, hs>>

(***************************************************************************)
(* Rows to convert: a record_type, the three nullable columns each NULL or *)
(* not, and for address texts that are an IPv4 address, an IPv6 address or *)
(* neither.  v4 and v6 are the address the text stands for, where it       *)
(* stands for one.                                                         *)
(***************************************************************************)
AddrTexts ==
    { [text |-> <<49, 48, 46, 48, 46, 48, 46, 49>>,             \* "10.0.0.1"
       v4 |-> <<Addr1>>, v6 |-> <<>>],
      [text |-> <<50, 53, 53, 46, 48, 46, 49, 50, 46, 57>>,     \* "255.0.12.9"
       v4 |-> << <<255, 0, 12, 9>> >>, v6 |-> <<>>],
      [text |-> <<50, 53, 54, 46, 49, 46, 49, 46, 49>>,         \* "256.1.1.1"
       v4 |-> <<>>, v6 |-> <<>>],
      [text |-> <<49, 46, 50, 46, 51>>,                         \* "1.2.3"
       v4 |-> <<>>, v6 |-> <<>>],
      [text |-> <<120>>,                                        \* "x"
       v4 |-> <<>>, v6 |-> <<>>],
      [text |-> <<58, 58, 49>>,                                 \* "::1"
       v4 |-> <<>>, v6 |-> << <<0, 0, 0, 0, 0, 0, 0, 1>> >>],
      [text |-> <<49, 58, 50, 58, 51, 58, 52, 58, 53, 58, 54, 58, 55, 58, 56>>,
       v4 |-> <<>>, v6 |-> << <<1, 2, 3, 4, 5, 6, 7, 8>> >>],   \* "1:2:3:4:5:6:7:8"
      [text |-> <<50, 48, 48, 49, 58, 100, 66, 56, 58, 58, 102, 102>>,
       v4 |-> <<>>, v6 |-> << <<8193, 3512, 0, 0, 0, 0, 0, 255>> >>],  \* "2001:dB8::ff"
      [text |-> <<49, 58, 50>>,                                 \* "1:2"
       v4 |-> <<>>, v6 |-> <<>>],
      [text |-> <<49, 58, 58, 50, 58, 58, 51>>,                 \* "1::2::3"
       v4 |-> <<>>, v6 |-> <<>>] }

ConvertCases ==
    \E record_type \in {1, 2, 5, 15, 28, 99},
       a \in {[text |-> <<>>, v4 |-> <<>>, v6 |-> <<>>]} \cup AddrTexts,
       host \in {<<>>, <<NameC>>},
       priority \in {<<>>, <<10>>},
       domain \in {NameQ, <<65, 46, 98>>},
       ttl \in {0, 60} :
        cx = [op |-> "convert", stage |-> "in",
              row |-> [id |-> 1,
                       address |-> IF a.text = <<>> THEN <<>> ELSE <<a.text>>,
                       host |-> host, priority |-> priority, domain |-> domain,
                       expiration_date |-> ttl, ttl |-> ttl,
                       record_type |-> record_type, inserted_at |-> 0],
              v4 |-> a.v4, v6 |-> a.v6,
              out |-> [ok |-> FALSE, val |-> RecordBase("UNKNOWN", <<>>, 0)]]

\* record_from_cache of the row.
Convert ==
    /\ cx.op = "convert" /\ cx.stage = "in"
    /\ cx' = [cx EXCEPT !.stage = "out", !.out = RecordFromCache(cx.row)]
    /\ UNCHANGED <<now, db, next_id, lookups, hs>>

(***************************************************************************)
(* Referrals to pick a name server from: up to three records in the        *)
(* authority section (NS b -> n.b, NS b -> m.b, NS z -> n.b, whose owner   *)
(* does not end a.b, and an A record), up to two in the additional section *)
(* (the A records of n.b and m.b, an AAAA record of n.b).                  *)
(***************************************************************************)
NameM == <<109, 46, 98>>       \* "m.b"

Seqs(S, n) == UNION { [1..k -> S] : k \in 0..n }

NsCases ==
    \E authorities \in Seqs({RecNS(NameZone, NameNs, 1), RecNS(NameZone, NameM, 1),
                             RecNS(<<122>>, NameNs, 1), RecA(NameZone, Addr1, 1)}, 3),
       resources \in Seqs({RecA(NameNs, Addr2, 1), RecA(NameM, Addr1, 1),
                           RecAAAA(NameNs, <<0, 0, 0, 0, 0, 0, 0, 1>>, 1)}, 2) :
        cx = [op |-> "ns", stage |-> "in", qname |-> NameQ,
              p |-> [PacketNew EXCEPT !.authorities = authorities,
                                      !.resources = resources],
              unresolved |-> <<>>, resolved |-> <<>>]

\* get_unresolved_ns and get_resolved_ns of the packet.
PickNs ==
    /\ cx.op = "ns" /\ cx.stage = "in"
    /\ cx' = [cx EXCEPT !.stage = "out",
                        !.unresolved = GetUnresolvedNs(cx.p, cx.qname),
                        !.resolved = GetResolvedNs(cx.p, cx.qname)]
    /\ UNCHANGED <<now, db, next_id, lookups, hs>>

BufInit ==
    /\ ServerIdle
    /\ \/ HeaderCases
       \/ QnameCases
       \/ JumpCases
       \/ CompressCases
       \/ PacketCases
       \/ CursorCases
       \/ ConvertCases
       \/ NsCases

BufNext ==
    \/ HeaderRoundTrip
    \/ QnameRoundTrip
    \/ ReadName
    \/ ParseBoth
    \/ WritePacket
    \/ ReadInt
    \/ WriteInt
    \/ SeekTo
    \/ StepBy
    \/ ReadNameAt
    \/ ReadRecordAt
    \/ Convert
    \/ PickNs

BufSpec == BufInit /\ [][BufNext]_vars

(***************************************************************************)
(* C14.  A header with opcode in 0..15 and one of the six rescodes,        *)
(* written and read back from the 12 bytes written, is the header it was,  *)
(* field by field.                                                         *)
(***************************************************************************)
C14_HeaderRoundTrip ==
    (cx.op = "header" /\ cx.stage = "out") =>
        /\ cx.w.ok /\ Len(cx.w.out) = 12
        /\ cx.r.ok /\ cx.r.pos = 12
        /\ cx.r.header = cx.h

C14_HeaderWithAllBitsRead ==
    /\ cx.op = "header" /\ cx.stage = "out"
    /\ cx.h.opcode = 15 /\ cx.h.rescode = REFUSED /\ cx.h.id = 43981
    /\ cx.h.response /\ cx.h.z /\ cx.h.recursion_available /\ cx.h.recursion_desired
    /\ cx.r.header.opcode = 15

(***************************************************************************)
(* C15.  The claim: a name of non-empty labels of at most 63 bytes each,   *)
(* of at most 255 bytes on the wire, is written by write_qname where it    *)
(* fits, and read_qname from where it was written gives the name in lower  *)
(* case and leaves the cursor after the zero that ends it.  write_qname    *)
(* refuses a label of more than 0x34 = 52 bytes.                           *)
(***************************************************************************)
NonEmptyLabels(labels) == \A i \in 1..Len(labels) : labels[i] # <<>>
LabelsWithin(labels, n) == \A i \in 1..Len(labels) : Len(labels[i]) <= n
Fits(labels, start) == start + Len(Wire(labels)) <= BufSize

C15_NameRoundTrip ==
    (/\ cx.op = "qname" /\ cx.stage = "out"
     /\ NonEmptyLabels(cx.labels) /\ LabelsWithin(cx.labels, 63)
     /\ Len(Wire(cx.labels)) <= 255 /\ Fits(cx.labels, cx.start)) =>
        /\ cx.w.ok
        /\ cx.r.ok
        /\ cx.r.name = LowerAll(cx.name)
        /\ cx.r.pos = cx.start + Len(Wire(cx.labels))

\* A name of one label of 53 bytes was refused at the start of the buffer.
C15_Label53Refused ==
    /\ cx.op = "qname" /\ cx.stage = "out"
    /\ cx.labels = <<LabelOf(53, 97)>> /\ cx.start = 0
    /\ ~cx.w.ok /\ cx.w.out = <<>>

(***************************************************************************)
(* C20.  The claim: write_qname fails exactly when a label is longer than  *)
(* 63 bytes or the name does not fit in the buffer, and where it succeeds  *)
(* it has written each label after its length and one zero after the last. *)
(* It fails for the labels of 53 to 63 bytes too.                          *)
(***************************************************************************)
C20_WriteQnameFailsOnlyOver63 ==
    (cx.op = "qname" /\ cx.stage = "out") =>
        /\ cx.w.ok <=> (LabelsWithin(cx.labels, 63) /\ Fits(cx.labels, cx.start))
        /\ cx.w.ok => cx.w.out = LabelOf(cx.start, 7) \o Wire(cx.labels)

\* A name of two labels, of 1 and 63 bytes, was refused after the first
\* label had been written, with room to spare.
C20_Label63Refused ==
    /\ cx.op = "qname" /\ cx.stage = "out"
    /\ cx.labels = <<LabelOf(1, 97), LabelOf(63, 81)>> /\ cx.start = 12
    /\ ~cx.w.ok /\ Len(cx.w.out) = 14

(***************************************************************************)
(* C17.  read_qname returns for every buffer; it makes at most 6 jumps; a  *)
(* name whose bytes lead through more than 5 pointers is an error, found   *)
(* on the sixth jump; and a name that leads through 5 or fewer is read     *)
(* with that many jumps, and is an error only where it runs off the        *)
(* buffer.                                                                 *)
(***************************************************************************)
Asked == Decode(cx.buf, cx.pos, MaxChain, 0)

C17_JumpBound ==
    (cx.op = "jumps" /\ cx.stage = "out") =>
        /\ cx.r.jumps <= 6
        /\ Asked.ptrs > 5 => (~cx.r.ok /\ cx.r.jumps = 6)
        /\ Asked.ptrs <= 5 => /\ cx.r.jumps = Asked.ptrs
                              /\ cx.r.ok <=> Asked.end = "done"

\* A chain of five pointers was read, one of six refused, and a pointer to
\* itself refused.
C17_FiveJumpsRead ==
    /\ cx.op = "jumps" /\ cx.stage = "out"
    /\ cx.buf = Chain(5, 0) /\ cx.pos = 0
    /\ cx.r.ok /\ cx.r.jumps = 5 /\ cx.r.name = <<97>> /\ cx.r.pos = 2

(***************************************************************************)
(* C16.  A packet whose repeated names are written with compression        *)
(* pointers parses to the same questions and records, in the same order,   *)
(* as the packet with every name written out; after a name that ends in a  *)
(* pointer the cursor is just past the two bytes of the pointer, and the   *)
(* parse ends at the end of the packet.                                    *)
(***************************************************************************)
C16_CompressionTolerance ==
    (cx.op = "compress" /\ cx.stage = "out") =>
        /\ cx.rp.ok /\ cx.rq.ok
        /\ cx.rp.val.questions = cx.rq.val.questions
        /\ SameSections(cx.rp.val, cx.rq.val)
        /\ Len(cx.rp.val.answers) = 2
        /\ cx.after = cx.marks
        /\ cx.rp.pos = Len(cx.packed)
        /\ cx.rq.pos = Len(cx.plain)

\* A packet with an MX answer whose owner is a pointer to a pointer was
\* parsed, and its host name c.b came out of a label and a pointer.
C16_PointerToPointerParsed ==
    /\ cx.op = "compress" /\ cx.stage = "out"
    /\ Len(cx.packed) < Len(cx.plain)
    /\ cx.rp.ok
    /\ cx.rp.val.answers[2].domain = <<97, Dot, 98>>
    /\ cx.rp.val.answers[2].host = <<99, Dot, 98>>
    /\ cx.rp.val.answers[2].priority = 10
    /\ SubSeq(cx.packed, 22, 23) = Ptr(12)
    /\ SubSeq(cx.packed, 38, 39) = Ptr(21)
    /\ SubSeq(cx.packed, 52, 55) = <<1, 99>> \o Ptr(14)

(***************************************************************************)
(* C18.  After Packet::write into a new buffer the four counts of the      *)
(* packet's header, and the four counts in bytes 4..11 of the buffer, are  *)
(* the lengths of questions, answers, authorities and resources, whatever  *)
(* the counts were before, and whether or not the packet fitted.           *)
(***************************************************************************)
Lengths(p) ==
    <<Len(p.questions), Len(p.answers), Len(p.authorities), Len(p.resources)>>

C18_CountsAreLengths ==
    (cx.op = "packet" /\ cx.stage = "out") =>
        /\ <<cx.p.header.questions, cx.p.header.answers,
             cx.p.header.authoritative_entries, cx.p.header.resource_entries>>
           = Lengths(cx.p)
        /\ Len(cx.w.out) >= 12
        /\ \A i \in 1..4 :
             cx.w.out[3 + 2 * i] * 256 + cx.w.out[4 + 2 * i] = Lengths(cx.p)[i]

\* A packet of 2, 2, 1 and 3 entries was written, and its counts are those.
C18_MixedSectionsWritten ==
    /\ cx.op = "packet" /\ cx.stage = "out"
    /\ cx.w.ok
    /\ Lengths(cx.p) = <<2, 2, 1, 3>>
    /\ SubSeq(cx.w.out, 5, 12) = <<0, 2, 0, 2, 0, 1, 0, 3>>

(***************************************************************************)
(* C19.  After any sequence of buffer operations the cursor is at most the *)
(* length of the buffer, 512.                                              *)
(***************************************************************************)
C19_CursorWithinBuffer ==
    /\ cx.op = "cursor" => cx.pos \in 0..BufSize
    /\ cx.op \in {"qname", "packet"} => Len(cx.w.out) \in 0..BufSize

\* Record::read of a record of an unknown type that declares 600 bytes of
\* data succeeded and left the cursor at 611.
C19_RecordReadPastEnd ==
    /\ cx.op = "cursor" /\ cx.n = 1 /\ cx.ok
    /\ SubSeq(cx.buf, 10, 11) = Be16(600)
    /\ cx.pos = 611

(***************************************************************************)
(* C21.  Where the fetch_one of inquiring gives a row that is valid and    *)
(* converts to a record while search_for_qname holds, inquiring returns in *)
(* that turn of its loop a packet whose only content is one answer, the    *)
(* record of the row, and no lookup is made in that turn.                  *)
(***************************************************************************)
\* Task h takes the step from the top of the loop of inquiring.
Fetches(h) == hs[h].pc = "inq_select" /\ hs'[h] # hs[h]

Usable(row, t) == row # NoRow /\ IsValid(row, t) /\ RecordFromCache(row).ok

C21_CacheHitReturnsTheRecord ==
    [][\A h \in Handlers :
         (Fetches(h) /\ hs[h].loc.search_for_qname /\ Usable(hs'[h].fetched, now)) =>
            /\ hs'[h].pc = "done" /\ hs'[h].resolved /\ hs'[h].ret = "cache"
            /\ hs'[h].result.answers = <<RecordFromCache(hs'[h].fetched).val>>
            /\ hs'[h].result.questions = <<>>
            /\ hs'[h].result.authorities = <<>>
            /\ hs'[h].result.resources = <<>>
            /\ hs'[h].n_lookups = hs[h].n_lookups
            /\ lookups' = lookups]_vars

\* A query with RD set was answered from the cache with no lookup made.
C21_AnsweredFromCache ==
    \E h \in Handlers :
        /\ hs[h].path = "recursive" /\ hs[h].ret = "cache"
        /\ hs[h].n_lookups = 0
        /\ Usable(hs[h].fetched, now)
        /\ Len(hs[h].result.answers) = 1
        /\ hs[h].sends # <<>>
        /\ SentAnswers(hs[h].sends[1]) = 1

(***************************************************************************)
(* C22.  Where the fetch_one of inquiring gives a valid A row for the name *)
(* server it is looking for (search_for_qname is false), current_ns        *)
(* becomes the address of the row, currently_quering and current_type go   *)
(* back to the question's, search_for_qname becomes true, and no lookup    *)
(* for the name server's name follows.                                     *)
(***************************************************************************)
C22_CachedNsAddressIsUsed ==
    [][\A h \in Handlers :
         (/\ Fetches(h) /\ ~hs[h].loc.search_for_qname
          /\ Usable(hs'[h].fetched, now) /\ hs'[h].fetched.record_type = 1) =>
            /\ hs'[h].loc.current_ns = Ipv4FromStr(hs'[h].fetched.address[1]).val
            /\ hs'[h].loc.currently_quering = hs[h].question.qname
            /\ hs'[h].loc.current_type = hs[h].question.qtype
            /\ hs'[h].loc.search_for_qname]_vars

\* A usable A row for the name server was fetched, and the task is about
\* to look the name server up at the root all the same.
C22_CachedNsLookedUpAgain ==
    \E h \in Handlers :
        /\ hs[h].pc = "inq_lookup"
        /\ ~hs[h].loc.search_for_qname
        /\ Usable(hs[h].fetched, now) /\ hs[h].fetched.record_type = 1
        /\ hs[h].fetched.domain = hs[h].loc.currently_quering
        /\ hs[h].loc.currently_quering = NameNs
        /\ hs[h].loc.current_ns = RootAddr

(***************************************************************************)
(* C23.  Where search_for_qname is false and the response of the lookup    *)
(* has an A record among its answers, inquiring does not return: it        *)
(* registers the first such record and then begins a new turn of its loop  *)
(* with current_ns the record's address, currently_quering and             *)
(* current_type the question's, and search_for_qname true.  Where the      *)
(* INSERT fails, inquiring returns the error instead.                      *)
(***************************************************************************)
\* Task h takes the step that makes its lookup, or its INSERT.
LooksUp(h) == hs[h].pc = "inq_lookup" /\ hs'[h] # hs[h]
Registers(h) == hs[h].pc = "inq_register" /\ hs'[h] # hs[h]

HasA(recs) == \E i \in 1..Len(recs) : recs[i].tag = "A"
FirstA(recs) ==
    recs[CHOOSE i \in 1..Len(recs) :
            recs[i].tag = "A" /\ \A j \in 1..(i - 1) : recs[j].tag # "A"]

\* The INSERT of task h failed and inquiring returned the error.
InsertFailed(h) ==
    /\ db' = db
    /\ hs'[h].store_failed /\ hs'[h].resolver_err /\ hs'[h].pc = "done"

\* The INSERT of task h stored rec and nothing else.
Inserted(h, rec) ==
    /\ db' = db \cup {NewRow(next_id, rec, now)}
    /\ \A r \in db : r.id # next_id
    /\ hs'[h].inserted = hs[h].inserted \cup {next_id}

C23_NsPhaseCompletion ==
    [][\A h \in Handlers :
         /\ (LooksUp(h) /\ ~hs[h].loc.search_for_qname /\ HasA(hs'[h].reply.answers)) =>
               /\ hs'[h].pc = "inq_register"
               /\ hs'[h].loc.record = FirstA(hs'[h].reply.answers)
               /\ ~hs'[h].loc.search_for_qname
               /\ hs'[h].sends = hs[h].sends
         /\ (Registers(h) /\ ~hs[h].loc.search_for_qname /\ HasA(hs[h].reply.answers)) =>
               \/ InsertFailed(h)
               \/ /\ Inserted(h, FirstA(hs[h].reply.answers))
                  /\ hs'[h].pc = "inq_select"
                  /\ hs'[h].loc.current_ns = FirstA(hs[h].reply.answers).addr
                  /\ hs'[h].loc.currently_quering = hs[h].question.qname
                  /\ hs'[h].loc.current_type = hs[h].question.qtype
                  /\ hs'[h].loc.search_for_qname
                  /\ ~hs'[h].resolved /\ hs'[h].sends = hs[h].sends]_vars

\* After a referral without glue and an answer for the name server, the
\* task is back at the top of its loop, looking for the qname at the
\* address it was given.
C23_NameServerFound ==
    \E h \in Handlers :
        /\ hs[h].pc = "inq_select" /\ hs[h].n_lookups = 2
        /\ hs[h].loc.search_for_qname
        /\ HasA(hs[h].reply.answers)
        /\ hs[h].loc.current_ns = FirstA(hs[h].reply.answers).addr
        /\ hs[h].loc.currently_quering = NameQ
        /\ \E r \in db : r.id \in hs[h].inserted
                         /\ r.address = <<Ipv4ToString(hs[h].loc.current_ns)>>

(***************************************************************************)
(* C24.  Where the response of the lookup has an answer and rescode        *)
(* NOERROR, and the name server case above does not apply, inquiring       *)
(* registers the first A record of the answers and returns the response    *)
(* as it is, whatever the types of the answers.                            *)
(***************************************************************************)
IsAnswer(h, reply) ==
    /\ reply.answers # <<>> /\ reply.header.rescode = NOERROR
    /\ ~(~hs[h].loc.search_for_qname /\ HasA(reply.answers))

C24_AnswerIsReturned ==
    [][\A h \in Handlers :
         /\ (LooksUp(h) /\ IsAnswer(h, hs'[h].reply)) =>
               /\ hs'[h].pc = "inq_register"
               /\ HasA(hs'[h].reply.answers)
               /\ hs'[h].loc.record = FirstA(hs'[h].reply.answers)
         /\ (Registers(h) /\ IsAnswer(h, hs[h].reply)) =>
               \/ InsertFailed(h)
               \/ /\ Inserted(h, FirstA(hs[h].reply.answers))
                  /\ hs'[h].resolved /\ hs'[h].result = hs[h].reply]_vars

\* A response whose only answer is a CNAME record ended the task with no
\* datagram sent.
C24_CnameOnlyAnswerPanics ==
    \E h \in Handlers :
        /\ hs[h].pc = "panicked"
        /\ hs[h].reply.header.rescode = NOERROR
        /\ Len(hs[h].reply.answers) = 1 /\ hs[h].reply.answers[1].tag = "CNAME"
        /\ hs[h].sends = <<>>

(***************************************************************************)
(* C25.  Where the response of the lookup is not taken as an answer or as  *)
(* the name server's address, is not NXDOMAIN, and get_resolved_ns gives   *)
(* a record for currently_quering, inquiring registers that A record and   *)
(* begins a new turn of its loop with current_ns the record's address and  *)
(* currently_quering, current_type and search_for_qname as they were.      *)
(* Where the INSERT fails, inquiring returns the error instead.            *)
(***************************************************************************)
\* None of the first three tests that inquiring makes on a response holds.
IsReferral(h, reply) ==
    /\ ~(~hs[h].loc.search_for_qname /\ HasA(reply.answers))
    /\ ~(reply.answers # <<>> /\ reply.header.rescode = NOERROR)
    /\ reply.header.rescode # NXDOMAIN

HasGlue(h, reply) ==
    IsReferral(h, reply) /\ GetResolvedNs(reply, hs[h].loc.currently_quering) # <<>>

SameSearch(h) ==
    /\ hs'[h].loc.currently_quering = hs[h].loc.currently_quering
    /\ hs'[h].loc.current_type = hs[h].loc.current_type
    /\ hs'[h].loc.search_for_qname = hs[h].loc.search_for_qname

C25_GlueIsFollowed ==
    [][\A h \in Handlers :
         /\ (LooksUp(h) /\ hs'[h].n_lookups > hs[h].n_lookups /\ HasGlue(h, hs'[h].reply)) =>
               /\ hs'[h].pc = "inq_register"
               /\ hs'[h].loc.record =
                      GetResolvedNs(hs'[h].reply, hs[h].loc.currently_quering)[1]
               /\ hs'[h].loc.record.tag = "A"
               /\ SameSearch(h)
               /\ hs'[h].sends = hs[h].sends
         /\ (Registers(h) /\ HasGlue(h, hs[h].reply)) =>
               \/ InsertFailed(h)
               \/ /\ Inserted(h, GetResolvedNs(hs[h].reply, hs[h].loc.currently_quering)[1])
                  /\ hs'[h].pc = "inq_select"
                  /\ hs'[h].loc.current_ns =
                         GetResolvedNs(hs[h].reply, hs[h].loc.currently_quering)[1].addr
                  /\ SameSearch(h)
                  /\ ~hs'[h].resolved /\ hs'[h].sends = hs[h].sends]_vars

\* After a referral with glue the task is at the top of its loop with the
\* same name to look for, at the address of the glue record, which is in
\* the cache.
C25_GlueFollowed ==
    \E h \in Handlers :
        /\ hs[h].pc = "inq_select" /\ hs[h].n_lookups = 1
        /\ hs[h].reply.answers = <<>>
        /\ hs[h].reply.authorities = <<RecNS(NameZone, NameNs, 1)>>
        /\ hs[h].loc.current_ns = Addr2
        /\ hs[h].loc.currently_quering = NameQ /\ hs[h].loc.search_for_qname
        /\ \E r \in db : r.id \in hs[h].inserted /\ r.domain = NameNs

(***************************************************************************)
(* C26.  Where the response is such a referral, get_resolved_ns gives      *)
(* nothing and get_unresolved_ns gives a host, inquiring goes on to the    *)
(* next turn of its loop with search_for_qname false, currently_quering    *)
(* that host (the host of the first NS record of the authorities whose     *)
(* owner ends currently_quering), current_type A and current_ns the root   *)
(* server, and the cache is not written to.                                *)
(***************************************************************************)
NamesNs(h, reply) ==
    /\ IsReferral(h, reply)
    /\ GetResolvedNs(reply, hs[h].loc.currently_quering) = <<>>
    /\ GetUnresolvedNs(reply, hs[h].loc.currently_quering) # <<>>

FirstNsHost(recs, qname) ==
    recs[CHOOSE i \in 1..Len(recs) :
            /\ recs[i].tag = "NS" /\ EndsWith(qname, recs[i].domain)
            /\ \A j \in 1..(i - 1) :
                 ~(recs[j].tag = "NS" /\ EndsWith(qname, recs[j].domain))].host

C26_UnresolvedNsIsSearched ==
    [][\A h \in Handlers :
         (LooksUp(h) /\ hs'[h].n_lookups > hs[h].n_lookups /\ NamesNs(h, hs'[h].reply)) =>
            /\ hs'[h].pc = "inq_select"
            /\ ~hs'[h].loc.search_for_qname
            /\ hs'[h].loc.currently_quering =
                   FirstNsHost(hs'[h].reply.authorities, hs[h].loc.currently_quering)
            /\ hs'[h].loc.current_type = QT("A")
            /\ hs'[h].loc.current_ns = RootAddr
            /\ db' = db /\ next_id' = next_id
            /\ hs'[h].inserted = hs[h].inserted
            /\ ~hs'[h].resolved /\ hs'[h].sends = hs[h].sends]_vars

\* After a referral without glue the task looks for the name server n.b,
\* starting at the root, and has stored nothing.
C26_NameServerSearched ==
    \E h \in Handlers :
        /\ hs[h].pc = "inq_select" /\ hs[h].n_lookups = 1
        /\ hs[h].reply.authorities = <<RecNS(NameZone, NameNs, 1)>>
        /\ hs[h].reply.resources = <<>>
        /\ ~hs[h].loc.search_for_qname
        /\ hs[h].loc.currently_quering = NameNs
        /\ hs[h].loc.current_type = QT("A")
        /\ hs[h].loc.current_ns = RootAddr
        /\ hs[h].inserted = {}

(***************************************************************************)
(* C27.  inquiring returns Ok(packet) only in one of four situations: a    *)
(* usable row fetched while search_for_qname holds (the packet is the      *)
(* row's record); a response with an answer and rescode NOERROR; a         *)
(* response with rescode NXDOMAIN; a response with no NS record for        *)
(* currently_quering.  In the last three the packet is the response.       *)
(***************************************************************************)
ReturnsFromCache(h) ==
    /\ Fetches(h) /\ hs[h].loc.search_for_qname
    /\ Usable(hs'[h].fetched, now)
    /\ hs'[h].result.answers = <<RecordFromCache(hs'[h].fetched).val>>

ReturnsAnswer(h) ==
    /\ Registers(h)
    /\ hs[h].reply.answers # <<>> /\ hs[h].reply.header.rescode = NOERROR
    /\ hs'[h].result = hs[h].reply

ReturnsNxdomain(h) ==
    /\ LooksUp(h)
    /\ hs'[h].reply.header.rescode = NXDOMAIN
    /\ hs'[h].result = hs'[h].reply

ReturnsLastResponse(h) ==
    /\ LooksUp(h)
    /\ \A i \in 1..Len(hs'[h].reply.authorities) :
         ~(/\ hs'[h].reply.authorities[i].tag = "NS"
           /\ EndsWith(hs[h].loc.currently_quering, hs'[h].reply.authorities[i].domain))
    /\ hs'[h].result = hs'[h].reply

C27_ReturnsOnlyInFourSituations ==
    [][\A h \in Handlers :
         (~hs[h].resolved /\ hs'[h].resolved) =>
            \/ ReturnsFromCache(h)
            \/ ReturnsAnswer(h)
            \/ ReturnsNxdomain(h)
            \/ ReturnsLastResponse(h)]_vars

\* One task returned an answer from upstream, another the row of the cache,
\* and both were sent.
C27_ReturnedAnswerAndRow ==
    \E g, h \in Handlers :
        /\ hs[g].resolved /\ hs[g].ret = "answer" /\ hs[g].result = hs[g].reply
        /\ hs[h].resolved /\ hs[h].ret = "cache" /\ Len(hs[h].result.answers) = 1
        /\ hs[g].sends # <<>> /\ hs[h].sends # <<>>

(***************************************************************************)
(* The resolver against an upstream that is a fixed set of servers.  The   *)
(* servers are the root, 10.0.0.2 and 10.0.0.1; what each replies when     *)
(* asked for a.b is root, mid and leaf, what the root replies when asked   *)
(* for n.b is ns:                                                          *)
(*   "answer"   an A record for the name asked (for n.b, of address ns_at) *)
(*   "alias"    a CNAME record for the name asked, and nothing else        *)
(*   "nxdomain" rescode NXDOMAIN                                           *)
(*   "empty"    nothing                                                    *)
(*   "glue"     NS b -> n.b with the A record of n.b, the next server      *)
(*   "noglue"   NS b -> n.b alone                                          *)
(*   "other"    the A record and a record of a type the parser does not    *)
(*              know                                                       *)
(* The servers stand in cx, which does not change.                         *)
(***************************************************************************)
NextServer(s) == IF s = RootAddr THEN Addr2 ELSE Addr1

Said(g, s, name) ==
    IF name = NameNs THEN g.ns
    ELSE IF s = RootAddr THEN g.root
    ELSE IF s = Addr2 THEN g.mid
    ELSE g.leaf

\* A reply of two answers: the A record of name, then a record of type 16,
\* which the parser does not know, owned by the question's name.
WithOther(name, at) ==
    SetU16(PacketWrite(WriterNew,
                       [PacketNew EXCEPT !.header.id = LookupId,
                                         !.header.response = TRUE,
                                         !.questions = <<QuestionNew(name, QT("A"))>>,
                                         !.answers = <<RecA(name, at, 1)>>]),
           6, 2).out \o RR(<<192, 12>>, 16, <<1, 120>>)

\* The datagram server s of g replies with when asked for name.
Upstream(g, s, name) ==
    LET said == Said(g, s, name)
    IN  CASE said = "answer" ->
               ReplyBytes(NOERROR,
                          <<RecA(name, IF name = NameNs THEN g.ns_at ELSE Addr1, 1)>>,
                          <<>>, <<>>)
          [] said = "alias" -> ReplyBytes(NOERROR, <<RecCNAME(name, NameC, 1)>>, <<>>, <<>>)
          [] said = "nxdomain" -> ReplyBytes(NXDOMAIN, <<>>, <<>>, <<>>)
          [] said = "glue" ->
               ReplyBytes(NOERROR, <<>>, <<RecNS(NameZone, NameNs, 1)>>,
                          <<RecA(NameNs, NextServer(s), 1)>>)
          [] said = "noglue" ->
               ReplyBytes(NOERROR, <<>>, <<RecNS(NameZone, NameNs, 1)>>, <<>>)
          [] said = "other" -> WithOther(name, IF name = NameNs THEN g.ns_at ELSE Addr1)
          [] OTHER -> ReplyBytes(NOERROR, <<>>, <<>>, <<>>)

Final == {"answer", "alias", "nxdomain", "empty"}
Referral == {"glue", "noglue"}

\* Every referral leads to a server further from the root: the last server
\* refers to none, the name server's own name is never referred on, and
\* where 10.0.0.2 names n.b without its address, n.b is not 10.0.0.2.
WellBehaved ==
    { g \in [root : Final \cup Referral, mid : Final \cup Referral, leaf : Final,
             ns : Final \ {"alias"}, ns_at : {Addr2, Addr1}] :
        g.mid = "noglue" => g.ns_at = Addr1 }

\* Lookups one resolver makes.
MaxHops == 6

\* lookup at current_ns, answered with the datagram reply.
LookupAnswered(h, reply) ==
    LET me == hs[h] IN
    /\ me.pc = "inq_lookup"
    /\ me.n_lookups < MaxHops
    /\ lookups' = lookups + 1
    /\ \E sent \in BOOLEAN :
         \E res \in One(Lookup(me.loc.currently_quering, me.loc.current_type, TRUE,
                               reply)) :
            Set(h, AfterLookup([me EXCEPT !.n_lookups = @ + 1, !.reply = res.val],
                               res, sent))
    /\ UNCHANGED <<now, db, next_id, cx>>

\* lookup at current_ns, answered by the servers in cx.
UpLookup(h) ==
    /\ hs[h].pc = "inq_lookup"
    /\ LookupAnswered(h, Upstream(cx.g, hs[h].loc.current_ns,
                                  hs[h].loc.currently_quering))

\* One client, asking for a.b or for n.b with RD set.
Asks ==
    \E name \in {NameQ, NameNs} :
        Recv(1, QueryBytes(ClientId, TRUE, FALSE, name, QT("A")))

WellInit ==
    /\ now = 0
    /\ db = {}
    /\ next_id = 1
    /\ lookups = 0
    /\ hs = [h \in Handlers |-> HandlerInit]
    /\ \E g \in WellBehaved : cx = [op |-> "servers", g |-> g]

WellNext ==
    \/ Asks
    \/ InqSelect(1)
    \/ InqDelete(1)
    \/ UpLookup(1)
    \/ InqRegister(1)
    \/ Tick

\* A turn of the resolver's loop: one await of inquiring.
Turn(h) == InqSelect(h) \/ InqDelete(h) \/ UpLookup(h) \/ InqRegister(h)

\* The task waits at an await that completes.
AtTurn(h) ==
    /\ hs[h].pc \in {"inq_select", "inq_delete", "inq_lookup", "inq_register"}
    /\ hs[h].pc = "inq_lookup" => hs[h].n_lookups < MaxHops

(***************************************************************************)
(* The runtime polls the task until it ends, and every server replies: a   *)
(* turn that can be taken is taken.  A turn can be taken exactly where     *)
(* AtTurn holds, and every turn changes hs[h]; the first disjunct of       *)
(* Polled says so without working the turn out.  No step of WellNext sets  *)
(* pc to "polled", so the steps of Polled(h) in a behaviour are the turns  *)
(* of h.                                                                   *)
(***************************************************************************)
Polled(h) ==
    /\ AtTurn(h)
    /\ \/ hs' = [hs EXCEPT ![h].pc = "polled"] /\ UNCHANGED <<now, db, next_id, lookups, cx>>
       \/ Turn(h)

WellFair == WF_vars(Polled(1))

WellSpec == WellInit /\ [][WellNext]_vars /\ WellFair

(***************************************************************************)
(* C28.  Against servers whose referrals lead further from the root each   *)
(* time, and which all reply, inquiring returns a packet after finitely    *)
(* many turns of its loop, unless an INSERT fails, and then it returns     *)
(* the error.                                                              *)
(***************************************************************************)
C28_ResolverReturns ==
    (hs[1].path = "recursive" /\ hs[1].asked) ~> (hs[1].resolved \/ hs[1].resolver_err)

\* The last server replied with a CNAME record alone, after a referral,
\* and the task ended with nothing returned or sent.
C28_EndedWithoutReturning ==
    /\ cx.op = "servers"
    /\ hs[1].pc = "panicked" /\ hs[1].n_lookups >= 2
    /\ ~hs[1].resolved /\ ~hs[1].resolver_err
    /\ hs[1].sends = <<>>

\* The loop of inquiring ends, one way or another.
WellTerminates == (hs[1].path = "recursive" /\ hs[1].asked) ~> Ended(hs[1].pc)

\* Without the servers that reply with a CNAME record alone, inquiring
\* returns.
WellReturns ==
    (/\ hs[1].path = "recursive" /\ hs[1].asked
     /\ "alias" \notin {cx.g.root, cx.g.mid, cx.g.leaf})
        ~> (hs[1].resolved \/ hs[1].resolver_err)

(***************************************************************************)
(* The resolver against servers that reply to every query with a           *)
(* referral: NS b -> n.b with the address of the next server (the last     *)
(* server gives its own), or NS b -> n.b alone.                            *)
(***************************************************************************)
Referring ==
    [root : Referral, mid : Referral, leaf : Referral, ns : Referral, ns_at : {Addr1}]

LoopInit ==
    /\ now = 0
    /\ db = {}
    /\ next_id = 1
    /\ lookups = 0
    /\ hs = [h \in Handlers |-> HandlerInit]
    /\ \E g \in Referring : cx = [op |-> "servers", g |-> g]

LoopSpec == LoopInit /\ [][WellNext]_vars /\ WellFair

(***************************************************************************)
(* C29.  Against servers that reply to every query with a referral,        *)
(* inquiring returns only a row of the cache, and only where the name      *)
(* asked for is the owner of the glue record it stored; asked for another  *)
(* name it goes on with its loop, lookup after lookup, does not return     *)
(* and nothing is sent to the client.  (An INSERT that fails ends the loop *)
(* with the error.)                                                        *)
(***************************************************************************)
C29_ReturnsOnlyItsGlue ==
    (hs[1].path = "recursive" /\ hs[1].asked /\ ~hs[1].resolver_err) =>
        /\ Ended(hs[1].pc) =>
              /\ hs[1].ret = "cache"
              /\ hs[1].question.qname = NameNs
              /\ hs[1].n_lookups >= 1
              /\ hs[1].result.answers = <<RecordFromCache(hs[1].fetched).val>>
              /\ hs[1].fetched.id \in hs[1].inserted
        /\ hs[1].question.qname # NameNs =>
              /\ ~Ended(hs[1].pc)
              /\ hs[1].sends = <<>>

\* Asked for a.b, the resolver has made every lookup the bound allows and
\* is at the next one.
C29_StillLooking ==
    /\ cx.op = "servers" /\ cx.g \in Referring
    /\ hs[1].question.qname = NameQ
    /\ hs[1].pc = "inq_lookup" /\ hs[1].n_lookups = MaxHops
    /\ ~hs[1].resolver_err /\ hs[1].sends = <<>>

\* The claim as it stands: the resolver never returns and nothing is sent.
C29_NeverReturns ==
    (hs[1].path = "recursive" /\ hs[1].asked /\ ~hs[1].resolver_err) =>
        /\ ~Ended(hs[1].pc)
        /\ hs[1].sends = <<>>

(***************************************************************************)
(* The resolver started on a cache file that already holds a row: the file *)
(* outlives the server (create_if_missing), and the columns address, host  *)
(* and priority may be NULL whatever record_type is.  One row for a.b or   *)
(* n.b, of each kind:                                                      *)
(*   "a"          A with an address        "cname"      CNAME with a host  *)
(*   "a_null"     A with no address        "cname_null" CNAME with no host *)
(*   "a_text"     A with address "x"       "mx_null"    MX with no priority*)
(*   "aaaa_null"  AAAA with no address     "ns"         record_type 2      *)
(* which expires at time 1 or not within the times of the model.           *)
(***************************************************************************)
SeedKinds == {"a", "cname", "a_null", "a_text", "aaaa_null", "cname_null", "mx_null", "ns"}

SeedRow(kind, domain, expiration_date) ==
    [id |-> 1,
     address |-> CASE kind = "a" -> <<Ipv4ToString(Addr1)>>
                   [] kind = "a_text" -> << <<120>> >>
                   [] OTHER -> <<>>,
     host |-> IF kind \in {"cname", "mx_null", "ns"} THEN <<NameC>> ELSE <<>>,
     priority |-> <<>>,
     domain |-> domain,
     expiration_date |-> expiration_date,
     ttl |-> 1,
     record_type |-> CASE kind \in {"a", "a_null", "a_text"} -> 1
                       [] kind = "ns" -> 2
                       [] kind \in {"cname", "cname_null"} -> 5
                       [] kind = "mx_null" -> 15
                       [] OTHER -> 28,
     inserted_at |-> 0]

SeedInit ==
    /\ now = 0
    /\ \E kind \in SeedKinds, domain \in {NameQ, NameNs}, e \in {1, MaxTime + 1} :
          db = {SeedRow(kind, domain, e)}
    /\ next_id = 2
    /\ lookups = 0
    /\ hs = [h \in Handlers |-> HandlerInit]
    /\ cx = NoCase

SeedNext ==
    \/ Asks
    \/ InqSelect(1)
    \/ InqDelete(1)
    \/ InqLookup(1)
    \/ InqRegister(1)
    \/ Tick

SeedSpec == SeedInit /\ [][SeedNext]_vars

(***************************************************************************)
(* C30.  Where the fetch_one of inquiring gives a row that has not expired *)
(* and does not convert to a record, inquiring neither returns nor fails   *)
(* in that turn of its loop: its next await is the lookup of the name it   *)
(* was looking for, at the server it was at, nothing is sent, and the      *)
(* store is as it was, the row in it.                                      *)
(***************************************************************************)
Malformed(row, t) == row # NoRow /\ IsValid(row, t) /\ ~RecordFromCache(row).ok

C30_MalformedRowIsAMiss ==
    [][\A h \in Handlers :
         (Fetches(h) /\ Malformed(hs'[h].fetched, now)) =>
            /\ hs'[h].pc = "inq_lookup"
            /\ ~hs'[h].resolved /\ ~hs'[h].resolver_err
            /\ hs'[h].sends = hs[h].sends
            /\ hs'[h].loc.currently_quering = hs[h].loc.currently_quering
            /\ hs'[h].loc.current_ns = hs[h].loc.current_ns
            /\ hs'[h].n_lookups = hs[h].n_lookups
            /\ db' = db
            /\ hs'[h].fetched \in db']_vars

\* The lookup was made right after the fetch of a malformed row, which is
\* still in the store.
C30_LookedUpAfterMalformedRow ==
    \E h \in Handlers :
        /\ Malformed(hs[h].fetched, now)
        /\ hs[h].n_cache = 1 /\ hs[h].n_lookups = 1
        /\ hs[h].fetched \in db
        /\ hs[h].evicted = {}

(***************************************************************************)
(* C31.  record_from_cache of a row of type A, AAAA, NS, CNAME or MX whose *)
(* columns for the type are not NULL and parse (address for A and AAAA,    *)
(* host for CNAME and NS, host and priority for MX) is a record of that    *)
(* type with the domain, the ttl and the payload of the row; with such a   *)
(* column NULL or not parsing it is an error.                              *)
(***************************************************************************)
\* The record the row stands for, by the column set of its type.
Stored(row, v4, v6) ==
    CASE row.record_type = 1 /\ row.address # <<>> /\ v4 # <<>> ->
           <<RecA(row.domain, v4[1], row.ttl)>>
      [] row.record_type = 28 /\ row.address # <<>> /\ v6 # <<>> ->
           <<RecAAAA(row.domain, v6[1], row.ttl)>>
      [] row.record_type = 2 /\ row.host # <<>> ->
           <<RecNS(row.domain, row.host[1], row.ttl)>>
      [] row.record_type = 5 /\ row.host # <<>> ->
           <<RecCNAME(row.domain, row.host[1], row.ttl)>>
      [] row.record_type = 15 /\ row.host # <<>> /\ row.priority # <<>> ->
           <<RecMX(row.domain, row.priority[1], row.host[1], row.ttl)>>
      [] OTHER -> <<>>

Converted(types) ==
    (cx.op = "convert" /\ cx.stage = "out" /\ cx.row.record_type \in types) =>
        LET stored == Stored(cx.row, cx.v4, cx.v6)
        IN  IF stored = <<>> THEN ~cx.out.ok
            ELSE cx.out.ok /\ cx.out.val = stored[1]

C31_ConvertsEverySupportedType == Converted({1, 2, 5, 15, 28})

\* An NS row with its host was converted, and the result is an error.
C31_NsRowIsAnError ==
    /\ cx.op = "convert" /\ cx.stage = "out"
    /\ cx.row.record_type = 2 /\ cx.row.host = <<NameC>>
    /\ ~cx.out.ok

\* The same for the four types record_from_cache has a branch for.
ConvertsTheTypesItKnows == Converted({1, 5, 15, 28})

\* An AAAA row with "::" in its address was converted to a record.
ConvertedShortAddress ==
    /\ cx.op = "convert" /\ cx.stage = "out"
    /\ cx.row.record_type = 28 /\ cx.out.ok
    /\ cx.out.val.addr = <<8193, 3512, 0, 0, 0, 0, 0, 255>>

(***************************************************************************)
(* C32.  Every row of the store, which was empty when the server started,  *)
(* has record_type 1, an address that is the text of an IPv4 address, no   *)
(* host and no priority, a domain in lower case, and expires ttl after it  *)
(* was inserted.                                                           *)
(***************************************************************************)
C32_RowsAreARecords ==
    \A r \in db :
        /\ r.record_type = 1
        /\ r.address # <<>> /\ Ipv4FromStr(r.address[1]).ok
        /\ r.host = <<>> /\ r.priority = <<>>
        /\ \A i \in 1..Len(r.domain) : r.domain[i] \notin 65..90
        /\ r.expiration_date = r.inserted_at + r.ttl

\* Rows are in the store, one of them for the name sent as "C.b" and one
\* inserted after time 0, and a response with a CNAME record was returned.
C32_RowsStored ==
    /\ \E r \in db : r.domain = NameC /\ r.address = <<Ipv4ToString(Addr2)>>
    /\ \E r \in db : r.inserted_at > 0
    /\ \E h \in Handlers :
          /\ hs[h].resolved
          /\ \E i \in 1..Len(hs[h].result.answers) : hs[h].result.answers[i].tag = "CNAME"

(***************************************************************************)
(* C33.  get_unresolved_ns(qname) is the host of the first NS record of    *)
(* the authority section whose owner ends qname, whether the additional    *)
(* section has an A record for that host or not, and nothing where no NS   *)
(* record has such an owner.  Where get_resolved_ns gives nothing, as      *)
(* where inquiring calls it, that host is the first with no A record in    *)
(* the additional section.                                                 *)
(***************************************************************************)
\* The places in the authority section of the NS records for qname.
NsAt(p, qname) ==
    {i \in 1..Len(p.authorities) :
        /\ p.authorities[i].tag = "NS"
        /\ EndsWith(qname, p.authorities[i].domain)}

\* Those whose host has no A record in the additional section.
BareNsAt(p, qname) ==
    {i \in NsAt(p, qname) :
        \A j \in 1..Len(p.resources) :
            ~(p.resources[j].tag = "A" /\ p.resources[j].domain = p.authorities[i].host)}

\* The host of the first record of the authority section at one of the
\* places, as an Option.
HostOfFirst(p, places) ==
    IF places = {} THEN <<>>
    ELSE <<p.authorities[CHOOSE i \in places : \A j \in places : i <= j].host>>

C33_FirstNsWhateverItsGlue ==
    (cx.op = "ns" /\ cx.stage = "out") =>
        /\ cx.unresolved = HostOfFirst(cx.p, NsAt(cx.p, cx.qname))
        /\ cx.resolved = <<>> =>
              cx.unresolved = HostOfFirst(cx.p, BareNsAt(cx.p, cx.qname))

\* The first NS record for the name has its A record, the second has none,
\* and the host of the first was returned.
C33_FirstHasGlue ==
    /\ cx.op = "ns" /\ cx.stage = "out"
    /\ cx.p.authorities = <<RecNS(NameZone, NameNs, 1), RecNS(NameZone, NameM, 1)>>
    /\ cx.p.resources = <<RecA(NameNs, Addr2, 1)>>
    /\ cx.unresolved = <<NameNs>>

\* The claim as it stands: the first NS host with no A record in the
\* additional section, and nothing where every one has.
C33_FirstNsWithoutGlue ==
    (cx.op = "ns" /\ cx.stage = "out") =>
        cx.unresolved = HostOfFirst(cx.p, BareNsAt(cx.p, cx.qname))

(***************************************************************************)
(* Three tasks at once, asked for a.b with RD set or not, against a root   *)
(* server that answers with the A record of a.b: two resolvers can miss    *)
(* the cache together and each insert a row, and a third task reads the    *)
(* store after them.                                                       *)
(***************************************************************************)
Tasks == 1..(MaxHandlers + 1)

Answering == [root |-> "answer", mid |-> "empty", leaf |-> "empty", ns |-> "empty",
              ns_at |-> Addr1]

DupInit ==
    /\ now = 0
    /\ db = {}
    /\ next_id = 1
    /\ lookups = 0
    /\ hs = [h \in Tasks |-> HandlerInit]
    /\ cx = [op |-> "servers", g |-> Answering]

DupNext ==
    \/ \E h \in Tasks, rd \in BOOLEAN :
          Recv(h, QueryBytes(ClientId, rd, FALSE, NameQ, QT("A")))
    \/ \E h \in Tasks : CachedSelect(h)
    \/ \E h \in Tasks : CachedDelete(h)
    \/ \E h \in Tasks : InqSelect(h)
    \/ \E h \in Tasks : InqDelete(h)
    \/ \E h \in Tasks : UpLookup(h)
    \/ \E h \in Tasks : InqRegister(h)
    \/ Tick

DupSpec == DupInit /\ [][DupNext]_vars

(***************************************************************************)
(* C34.  However the tasks interleave, and with more than one row for a    *)
(* name in the store: each SELECT of a task gives one row of the store or  *)
(* none, a task that answers from the cache answers with a row that had    *)
(* not expired when the task read it, and no task fails or panics at a     *)
(* read.                                                                   *)
(***************************************************************************)
\* Task h takes the step of its SELECT.
Reads(h) == hs[h].pc \in {"cached_select", "inq_select"} /\ hs'[h] # hs[h]

\* Task h answers from the cache at this step.
ServesFromCache(h) ==
    \/ hs[h].pc = "inq_select" /\ hs'[h].pc = "done" /\ hs'[h].ret = "cache"
    \/ hs[h].pc = "cached_select" /\ hs'[h].pc = "done" /\ hs'[h].response.answers # <<>>

C34_ReadsOneUnexpiredRow ==
    [][\A h \in DOMAIN hs :
         Reads(h) =>
            /\ hs'[h].n_cache = hs[h].n_cache + 1
            /\ hs'[h].fetched \in db \cup {NoRow}
            /\ ServesFromCache(h) =>
                  /\ hs'[h].fetched \in db
                  /\ hs'[h].fetched.domain = hs[h].question.qname
                  /\ hs'[h].fetched.expiration_date >= now
                  /\ hs'[h].response.answers = <<RecordFromCache(hs'[h].fetched).val>>
            /\ hs'[h].resolver_err = hs[h].resolver_err
            /\ hs'[h].pc # "panicked"
            /\ db' = db]_vars

\* Two resolvers each inserted a row for a.b, one row has expired and the
\* other has not, and a third task answered from the one that has not.
C34_ServedWithDuplicates ==
    \E r1 \in db, r2 \in db :
        /\ r1.id # r2.id /\ r1.domain = NameQ /\ r2.domain = NameQ
        /\ r1.inserted_at < r2.inserted_at
        /\ \E h1 \in DOMAIN hs, h2 \in DOMAIN hs, h3 \in DOMAIN hs :
              /\ h1 # h2 /\ r1.id \in hs[h1].inserted /\ r2.id \in hs[h2].inserted
              /\ hs[h1].n_lookups = 1 /\ hs[h2].n_lookups = 1
              /\ hs[h3].pc = "done" /\ hs[h3].n_lookups = 0
              /\ hs[h3].fetched = r2
              /\ hs[h3].response.answers = <<RecA(NameQ, Addr1, 1)>>

(***************************************************************************)
(* The loop of run with its own place in cx: pc is where the loop is       *)
(* ("recv_from" is its only await), failed the receives that gave an Err.  *)
(* Nothing makes a task go on: its upstream may stay silent for ever.      *)
(***************************************************************************)
\* Failed receives.
MaxFailed == 1

ListenInit ==
    /\ now = 0
    /\ db = {}
    /\ next_id = 1
    /\ lookups = 0
    /\ hs = [h \in Handlers |-> HandlerInit]
    /\ cx = [op |-> "listener", pc |-> "recv_from", failed |-> 0]

\* recv_from gave an Err, and run returns it.
RecvFailedEndsRun ==
    /\ cx.pc = "recv_from"
    /\ cx.failed < MaxFailed
    /\ cx' = [cx EXCEPT !.failed = @ + 1, !.pc = "returned"]
    /\ UNCHANGED <<now, db, next_id, lookups, hs>>

\* recv_from gave an Err: it is logged, and the loop goes on.
RecvFailed ==
    /\ cx.pc = "recv_from"
    /\ cx.failed < MaxFailed
    /\ cx' = [cx EXCEPT !.failed = @ + 1]
    /\ UNCHANGED <<now, db, next_id, lookups, hs>>

\* recv_from gave a datagram: the task is spawned, and the loop goes on.
RecvSpawn(h, d) ==
    /\ cx.pc = "recv_from"
    /\ Spawn(h, d)
    /\ UNCHANGED <<now, db, next_id, lookups, cx>>

\* The datagrams that arrive: queries for a.b with RD set.
Arriving == {QueryBytes(ClientId, TRUE, FALSE, NameQ, QT("A"))}

\* One turn of the loop of run.
Listen == RecvFailed \/ \E h \in Handlers, d \in Arriving : RecvSpawn(h, d)

ListenNext ==
    \/ Listen
    \/ \E h \in Handlers : InqSelect(h)
    \/ \E h \in Handlers : InqDelete(h)
    \/ \E h \in Handlers : InqLookup(h)
    \/ \E h \in Handlers : InqRegister(h)
    \/ Tick

\* The loop is at recv_from and a datagram or an error can come.
AtRecv ==
    /\ cx.pc = "recv_from"
    /\ cx.failed < MaxFailed \/ \E h \in Handlers : hs[h].pc = "idle"

(***************************************************************************)
(* Datagrams keep coming and the runtime polls the task of run: a turn of  *)
(* the loop that can be taken is taken.  One can be taken exactly where    *)
(* AtRecv holds; the first disjunct of Received says so without working    *)
(* the turn out, and no step of ListenNext sets pc to "polled".            *)
(***************************************************************************)
Received ==
    /\ AtRecv
    /\ \/ cx' = [cx EXCEPT !.pc = "polled"] /\ UNCHANGED <<now, db, next_id, lookups, hs>>
       \/ Listen

ListenSpec == ListenInit /\ [][ListenNext]_vars /\ WF_vars(Received)

(***************************************************************************)
(* C35.  Whatever the tasks do, go on, wait for ever for an upstream that  *)
(* stays silent, or panic, and whatever receives fail, the loop of run     *)
(* comes to spawn a task for every datagram that arrives.                  *)
(***************************************************************************)
C35_EveryDatagramDispatched == <>(\A h \in Handlers : hs[h].pc # "idle")

\* The first task still waits for its first reply, after a receive failed
\* another task was spawned, and that one has ended.
C35_SpawnedWhileWaiting ==
    /\ cx.op = "listener" /\ cx.failed >= 1
    /\ hs[1].pc = "inq_lookup" /\ hs[1].n_lookups = 0
    /\ hs[2].pc = "done" /\ hs[2].sends # <<>>

(***************************************************************************)
(* C36.  No task panics, whatever the upstream replies: a task that was    *)
(* asked a question with RD set and has ended has sent a datagram.         *)
(***************************************************************************)
C36_NoTaskPanics ==
    \A h \in Handlers :
        /\ hs[h].pc # "panicked"
        /\ (Ended(hs[h].pc) /\ hs[h].path = "recursive" /\ hs[h].asked) => hs[h].sends # <<>>

\* After a referral, the second response of the upstream had answers, none
\* of them an A record: the task ended there with nothing sent.
C36_PanickedAtSecondResponse ==
    \E h \in Handlers :
        /\ hs[h].pc = "panicked" /\ hs[h].path = "recursive" /\ hs[h].asked
        /\ hs[h].n_lookups = 2
        /\ hs[h].reply.answers # <<>> /\ ~HasA(hs[h].reply.answers)
        /\ ~hs[h].resolved /\ ~hs[h].resolver_err
        /\ hs[h].sends = <<>>

(***************************************************************************)
(* The responses relayed from servers that may send a record of a type     *)
(* the parser does not know.                                               *)
(***************************************************************************)
Relaying ==
    [root : Final \cup Referral \cup {"other"},
     mid : Final \cup Referral \cup {"other"},
     leaf : {"answer", "other"}, ns : {"answer", "other"}, ns_at : {Addr1}]

RelayInit ==
    /\ now = 0
    /\ db = {}
    /\ next_id = 1
    /\ lookups = 0
    /\ hs = [h \in Handlers |-> HandlerInit]
    /\ \E g \in Relaying : cx = [op |-> "servers", g |-> g]

RelaySpec == RelayInit /\ [][WellNext]_vars

\* The response datagrams: goofy_workaround sends the whole buffer, the
\* handler the bytes written.
IsResponseDatagram(s) == s.len < BufSize

\* What the client reads from the datagram s.
ReadBack(s) == PacketFromBuffer(s.data)

SameRecords(p, q) == p.questions = q.questions /\ SameSections(p, q)

\* The records of the four sections that write puts on the wire.
Encoded(p) ==
    [questions |-> p.questions,
     answers |-> SelectSeq(p.answers, LAMBDA r : r.tag # "UNKNOWN"),
     authorities |-> SelectSeq(p.authorities, LAMBDA r : r.tag # "UNKNOWN"),
     resources |-> SelectSeq(p.resources, LAMBDA r : r.tag # "UNKNOWN")]

\* C37: every response datagram a task sends is read back as a packet with
\* the questions, answers, authorities and additionals of the response the
\* task serialized, so each count of its header is the number of records
\* encoded in that section.
C37_EmittedIsWhatWasSerialized ==
    \A h \in Handlers :
        \A i \in DOMAIN hs[h].sends :
            IsResponseDatagram(hs[h].sends[i]) =>
                /\ ReadBack(hs[h].sends[i]).ok
                /\ SameRecords(ReadBack(hs[h].sends[i]).val, hs[h].response)

\* A response with a record of an unknown type was relayed to the client.
C37_RelayedUnknownRecord ==
    \E h \in Handlers :
        /\ hs[h].pc = "done" /\ hs[h].ret = "answer"
        /\ \E i \in DOMAIN hs[h].sends : IsResponseDatagram(hs[h].sends[i])
        /\ \E j \in DOMAIN hs[h].response.answers :
               hs[h].response.answers[j].tag = "UNKNOWN"

\* Supporting C37: the header of every response datagram counts the records
\* of the response, and what is read back matches the response wherever the
\* response has no record of an unknown type.
CountsTheSkippedRecords ==
    \A h \in Handlers :
        \A i \in DOMAIN hs[h].sends :
            IsResponseDatagram(hs[h].sends[i]) =>
                LET back == ReadBack(hs[h].sends[i])
                    sent == hs[h].response
                IN  /\ back.ok
                    /\ back.val.header.answers = Len(sent.answers)
                    /\ back.val.header.authoritative_entries = Len(sent.authorities)
                    /\ back.val.header.resource_entries = Len(sent.resources)
                    /\ SameRecords(Encoded(sent), sent) => SameRecords(back.val, sent)

(***************************************************************************)
(* Two tasks asked for a.b with any of the five query types, RD set or     *)
(* not.  The root server has the A record of a.b and no record of another  *)
(* type: it answers a question of type A with the record, and any other    *)
(* with nothing.                                                           *)
(***************************************************************************)
QueryTypes == {QT("A"), QT("NS"), QT("CNAME"), QT("MX"), QT("AAAA")}

TypeInit ==
    /\ now = 0
    /\ db = {}
    /\ next_id = 1
    /\ lookups = 0
    /\ hs = [h \in Handlers |-> HandlerInit]
    /\ cx = [op |-> "servers", g |-> Answering]

\* lookup at the servers of cx, which answer by the type asked.
TypedLookup(h) ==
    /\ hs[h].pc = "inq_lookup"
    /\ LookupAnswered(h, IF hs[h].loc.current_type = QT("A")
                         THEN Upstream(cx.g, hs[h].loc.current_ns,
                                       hs[h].loc.currently_quering)
                         ELSE ReplyBytes(NOERROR, <<>>, <<>>, <<>>))

TypeNext ==
    \/ \E h \in Handlers, rd \in BOOLEAN, qt \in QueryTypes :
          Recv(h, QueryBytes(ClientId, rd, FALSE, NameQ, qt))
    \/ \E h \in Handlers : CachedSelect(h)
    \/ \E h \in Handlers : CachedDelete(h)
    \/ \E h \in Handlers : InqSelect(h)
    \/ \E h \in Handlers : InqDelete(h)
    \/ \E h \in Handlers : TypedLookup(h)
    \/ \E h \in Handlers : InqRegister(h)
    \/ Tick

TypeSpec == TypeInit /\ [][TypeNext]_vars

\* Task h has answered from the cache: the resolver returned the row it
\* found, or the cache-only path answered with one.
ServedFromCache(h) ==
    /\ hs[h].pc = "done"
    /\ hs[h].response.answers # <<>>
    /\ \/ hs[h].resolved /\ hs[h].ret = "cache"
       \/ ~hs[h].request.header.recursion_desired

\* C38: every answer a task served from the cache is a record of the type
\* its question asked for.
C38_CachedAnswerHasTheTypeAsked ==
    \A h \in Handlers :
        ServedFromCache(h) =>
            \A i \in DOMAIN hs[h].response.answers :
                hs[h].response.answers[i].tag = hs[h].question.qtype.tag

\* One task asked for the A record of a.b and its resolver stored it; the
\* other asked for the AAAA record and was answered with that row.
C38_OtherTypeAnsweredWithARow ==
    \E g, h \in Handlers :
        /\ hs[g].question.qtype = QT("A") /\ hs[g].inserted # {}
        /\ ServedFromCache(h)
        /\ hs[h].question.qtype = QT("AAAA")
        /\ hs[h].fetched.id \in hs[g].inserted
        /\ hs[h].response.answers = <<RecA(NameQ, Addr1, 1)>>

\* Supporting C38: what the cache serves is the row read for the name asked,
\* whatever the type asked.
ServesTheRowOfTheName ==
    \A h \in Handlers :
        ServedFromCache(h) =>
            /\ hs[h].fetched.domain = hs[h].question.qname
            /\ hs[h].response.answers = <<RecordFromCache(hs[h].fetched).val>>

(***************************************************************************)
(* C39.  The responses of upstream servers that inquiring returns.         *)
(***************************************************************************)
\* At this step the resolver of task h returns a response of an upstream
\* server: `return Ok(response)` after lookup, or after register_record.
ReturnsUpstream(h) ==
    /\ hs[h].pc \in {"inq_lookup", "inq_register"}
    /\ ~hs[h].resolved /\ hs'[h].resolved
    /\ hs'[h].ret \in {"answer", "nxdomain", "fallback"}

\* The resolver of task h is asking for the name and type of its question.
AsksTheQuestion(h) ==
    /\ hs[h].loc.search_for_qname
    /\ hs[h].loc.currently_quering = hs[h].question.qname
    /\ hs[h].loc.current_type = hs[h].question.qtype

\* C39: a response of an upstream server is returned only by a resolver
\* that was asking for the name and type of the client's question: none is
\* returned while the resolver searches for the address of a name server.
C39_ReturnsOnlyRepliesToTheQuestion ==
    [][\A h \in Handlers : ReturnsUpstream(h) => AsksTheQuestion(h)]_vars

\* The root refers a.b to n.b without its address and says that n.b does
\* not exist, and the client asking for a.b was sent that NXDOMAIN.
C39_NxdomainOfTheNameServerSent ==
    /\ cx.g.root = "noglue" /\ cx.g.ns = "nxdomain"
    /\ hs[1].question.qname = NameQ
    /\ hs[1].pc = "done" /\ hs[1].resolved /\ hs[1].ret = "nxdomain"
    /\ hs[1].n_lookups = 2
    /\ hs[1].response.header.rescode = NXDOMAIN
    /\ hs[1].sends # <<>>

\* Supporting C39: a response with answers is returned only by a resolver
\* asking for the client's question.
AnswersAreRepliesToTheQuestion ==
    [][\A h \in Handlers :
         (ReturnsUpstream(h) /\ hs'[h].ret = "answer") => AsksTheQuestion(h)]_vars

(***************************************************************************)
(* Requests handled one at a time: a datagram is received only when no     *)
(* task is running.  The store starts empty, the requests ask for a.b or   *)
(* n.b with RD set, and every server answers or refers.                    *)
(***************************************************************************)
Serving ==
    { g \in [root : {"answer", "glue", "noglue"}, mid : {"answer", "glue", "noglue", "empty"},
             leaf : {"answer"}, ns : {"answer", "nxdomain"}, ns_at : {Addr2, Addr1}] :
        g.mid = "noglue" => g.ns_at = Addr1 }

SeqInit ==
    /\ now = 0
    /\ db = {}
    /\ next_id = 1
    /\ lookups = 0
    /\ hs = [h \in Handlers |-> HandlerInit]
    /\ \E g \in Serving : cx = [op |-> "servers", g |-> g]

\* No task is between its datagram and its end.
NoneRunning == \A g \in Handlers : hs[g].pc \in {"idle", "done", "panicked"}

RecvAlone(h) ==
    /\ NoneRunning
    /\ \E name \in {NameQ, NameNs} :
          Recv(h, QueryBytes(ClientId, TRUE, FALSE, name, QT("A")))

SeqNext ==
    \/ \E h \in Handlers : RecvAlone(h)
    \/ \E h \in Handlers : InqSelect(h)
    \/ \E h \in Handlers : InqDelete(h)
    \/ \E h \in Handlers : UpLookup(h)
    \/ \E h \in Handlers : InqRegister(h)
    \/ Tick

SeqSpec == SeqInit /\ [][SeqNext]_vars

\* Two rows of the store for one domain.
Twice(rows) == \E r1 \in rows, r2 \in rows : r1.id # r2.id /\ r1.domain = r2.domain

SecondRequestFoundTheRow ==
    \E g, h \in Handlers :
        /\ g # h /\ hs[g].pc = "done" /\ hs[h].pc = "done"
        /\ hs[g].question.qname = NameQ /\ hs[h].question.qname = NameQ
        /\ hs[g].inserted # {} /\ hs[h].inserted = {}
        /\ hs[h].ret = "cache" /\ hs[h].fetched.id \in hs[g].inserted

=====
